---- MODULE Spec2Model ----
(***************************************************************************)
(* Model of the Downloads-folder monitor: the fingerprint engine and the   *)
(* directory scan (file_monitor.py), the timestamp comparison and the      *)
(* merge/dedup step (update_csv_data), the duplicate detector              *)
(* (duplicate_detector.py), the monitoring cycle (app.py) and the threads  *)
(* of the GUI (gui_app.py).                                                *)
(*                                                                         *)
(* Strings whose characters the code inspects (timestamps) are sequences   *)
(* of one-character strings; Python's None is the value None (fingerprint  *)
(* and other fields) or NoneTs (timestamp field).                          *)
(***************************************************************************)
EXTENDS Integers, Sequences, FiniteSets, TLC

VARIABLES
    pc,             \* position of the program / of the function being run
    ts1, ts2,       \* arguments of compare_timestamps
    cmp,            \* its outcome
    probe,          \* what the filesystem answers to one calculate_sha1 call
    max_size_mb,    \* size limit argument of calculate_sha1 (None = no limit)
    sha1_out,       \* its outcome
    existing_data,  \* DownloadsMonitor.existing_data / merge's previous records
    new_data,       \* DownloadsMonitor.new_data / merge's fresh records
    excluded_files, \* exclusion list handed to merge
    updated_data,   \* DownloadsMonitor.updated_data / merge's output
    merge_raised,   \* TRUE when update_csv_data ended by an exception
    duplicates,     \* DuplicateDetector.duplicates
    root_state,     \* the downloads folder: "ok", "missing" or "denied" (unlistable)
    dir_state,      \* the same for every category folder
    fs,             \* the file at every path (group, name), if any
    todo,           \* entries of the current os.listdir not yet visited
    cat,            \* folder being scanned: 0 the root, i the i-th category
    candidates,     \* paths that passed os.path.isfile in this scan
    hash_calls,     \* number of calculate_sha1 calls made by this scan
    downloads_path, \* DownloadsMonitor.downloads_path, the configured root
    store,          \* the store file on disk: [exists, fields, rows]
    store_before,   \* the store file as it was when the call or the cycle began
    result,         \* how the last call or cycle ended
    last_step,      \* the last step the running cycle entered
    cycles,         \* number of cycles started by ContinuousMonitor.start
    prev,           \* how the previous cycle ended: its result and fresh records
    duplicate_keys, \* the keys of DuplicateDetector.duplicates in dictionary order
    total_duplicates, \* DuplicateDetector.total_duplicates
    wasted_space,   \* DuplicateDetector.wasted_space
    suggestions,    \* the list returned by the last suggest_cleanup call
    calls,          \* number of find_duplicates calls made on the detector
    is_monitoring,  \* DownloadsMonitorGUI.is_monitoring
    threads,        \* the threads the GUI started: [target, at] each
    buttons,        \* state of start_btn, stop_btn and scan_btn
    pending         \* finish_single_scan callbacks posted with root.after, not yet run

compare_vars == <<ts1, ts2, cmp>>

sha1_vars == <<probe, max_size_mb, sha1_out>>

merge_vars == <<excluded_files, updated_data, merge_raised, duplicates>>

scan_vars == <<root_state, dir_state, fs, todo, cat, candidates, hash_calls>>

run_vars == <<downloads_path, store, store_before, result, last_step, cycles>>

detector_vars == <<duplicate_keys, total_duplicates, wasted_space, suggestions, calls>>

gui_vars == <<is_monitoring, threads, buttons, pending>>

vars == <<pc, compare_vars, sha1_vars, existing_data, new_data, merge_vars,
          scan_vars, run_vars, prev, detector_vars, gui_vars>>

None == "None"
NoneTs == <<"None">>
SKIPPED_TOO_LARGE == "SKIPPED_TOO_LARGE"
RootGroup == "~"

SeqToSet(s) == {s[i] : i \in 1..Len(s)}

-----------------------------------------------------------------------------
(* Characters and dates                                                    *)

Digits == <<"0", "1", "2", "3", "4", "5", "6", "7", "8", "9">>

IsDigit(c) == \E i \in 1..10 : Digits[i] = c

DigitVal(c) == (CHOOSE i \in 1..10 : Digits[i] = c) - 1

\* Code point of the characters a timestamp string is made of.
Ord(c) ==
    CASE c = "-" -> 45
      [] c = "/" -> 47
      [] c = ":" -> 58
      [] c = "T" -> 84
      [] OTHER   -> 48 + DigitVal(c)

D2(n) == <<Digits[((n \div 10) % 10) + 1], Digits[(n % 10) + 1]>>

D4(n) == D2(n \div 100) \o D2(n % 100)

\* datetime.strftime("%Y-%m-%dT%H:%M:%S")
strftime_iso(dt) ==
    D4(dt.Y) \o <<"-">> \o D2(dt.m) \o <<"-">> \o D2(dt.d) \o <<"T">>
        \o D2(dt.H) \o <<":">> \o D2(dt.M) \o <<":">> \o D2(dt.S)

\* datetime.strftime("%y/%m/%d")
strftime_legacy(dt) ==
    D2(dt.Y % 100) \o <<"/">> \o D2(dt.m) \o <<"/">> \o D2(dt.d)

Num2(s, i) == 10 * DigitVal(s[i]) + DigitVal(s[i + 1])

AllDigits(s, idx) == \A i \in idx : IsDigit(s[i])

\* datetime.fromisoformat on a string: the parsed datetime, or ValueError.
fromisoformat(s) ==
    IF /\ Len(s) = 19
       /\ AllDigits(s, {1, 2, 3, 4, 6, 7, 9, 10, 12, 13, 15, 16, 18, 19})
       /\ s[5] = "-" /\ s[8] = "-" /\ s[14] = ":" /\ s[17] = ":"
       /\ Num2(s, 6) \in 1..12 /\ Num2(s, 9) \in 1..31
       /\ Num2(s, 12) \in 0..23 /\ Num2(s, 15) \in 0..59 /\ Num2(s, 18) \in 0..59
    THEN [ok |-> TRUE,
          dt |-> [Y |-> 100 * Num2(s, 1) + Num2(s, 3), m |-> Num2(s, 6),
                  d |-> Num2(s, 9), H |-> Num2(s, 12), M |-> Num2(s, 15),
                  S |-> Num2(s, 18)]]
    ELSE [ok |-> FALSE]

\* datetime.strptime(s, "%y/%m/%d"): two-digit years 69..99 are 19xx, 00..68 20xx.
strptime_legacy(s) ==
    IF /\ Len(s) = 8
       /\ AllDigits(s, {1, 2, 4, 5, 7, 8})
       /\ s[3] = "/" /\ s[6] = "/"
       /\ Num2(s, 4) \in 1..12 /\ Num2(s, 7) \in 1..31
    THEN [ok |-> TRUE,
          dt |-> [Y |-> IF Num2(s, 1) >= 69 THEN 1900 + Num2(s, 1)
                                            ELSE 2000 + Num2(s, 1),
                  m |-> Num2(s, 4), d |-> Num2(s, 7), H |-> 0, M |-> 0, S |-> 0]]
    ELSE [ok |-> FALSE]

\* datetime's own ordering: by day, then by second of the day.
DayKey(dt) == (dt.Y * 12 + dt.m) * 31 + dt.d

SecKey(dt) == (dt.H * 60 + dt.M) * 60 + dt.S

Sign(n) == IF n < 0 THEN -1 ELSE IF n > 0 THEN 1 ELSE 0

\* Python's str < str: lexicographic by code point, a proper prefix is smaller.
RECURSIVE StrCmp(_, _)
StrCmp(s, t) ==
    IF s = <<>> /\ t = <<>> THEN 0
    ELSE IF s = <<>> THEN -1
    ELSE IF t = <<>> THEN 1
    ELSE IF Ord(Head(s)) # Ord(Head(t)) THEN Sign(Ord(Head(s)) - Ord(Head(t)))
    ELSE StrCmp(Tail(s), Tail(t))

DtCmp(a, b) ==
    IF DayKey(a) # DayKey(b) THEN Sign(DayKey(a) - DayKey(b))
    ELSE Sign(SecKey(a) - SecKey(b))

HasT(s) == \E i \in 1..Len(s) : s[i] = "T"

\* compare_timestamps(ts1, ts2): [raised, value]. `'T' in None` raises
\* TypeError, which the except clause catches; the fallback `ts1 < ts2` then
\* raises TypeError again when either side is None, and nothing catches that.
compare_timestamps(a, b) ==
    IF a = NoneTs \/ b = NoneTs THEN [raised |-> TRUE, value |-> 0]
    ELSE LET both_iso == HasT(a) /\ HasT(b)
             p1 == IF both_iso THEN fromisoformat(a) ELSE strptime_legacy(a)
             p2 == IF both_iso THEN fromisoformat(b) ELSE strptime_legacy(b)
         IN  IF p1.ok /\ p2.ok
             THEN [raised |-> FALSE, value |-> DtCmp(p1.dt, p2.dt)]
             ELSE [raised |-> FALSE, value |-> StrCmp(a, b)]

-----------------------------------------------------------------------------
(* Fingerprint engine                                                      *)

MB == 1024 * 1024

\* What the filesystem answers during one calculate_sha1 call: whether
\* os.path.exists holds, whether os.path.getsize succeeds, the size in bytes,
\* how open/read ends ("ok", "PermissionError", "OSError") and the content's
\* digest. The limit is <<>> for None and <<n>> for n megabytes.
calculate_sha1_at_limit(f, limit) ==
    IF ~f.exists THEN None
    ELSE IF limit # <<>> /\ ~f.stat_ok THEN None
    ELSE IF limit # <<>> /\ f.size >= limit[1] * MB THEN SKIPPED_TOO_LARGE
    ELSE IF f.read # "ok" THEN None
    ELSE f.digest

calculate_sha1(f, limit) ==
    IF ~f.exists THEN None
    ELSE IF limit # <<>> /\ ~f.stat_ok THEN None
    ELSE IF limit # <<>> /\ f.size > limit[1] * MB THEN SKIPPED_TOO_LARGE
    ELSE IF f.read # "ok" THEN None
    ELSE f.digest

\* A file as the filesystem holds it: [exists, size, read, digest, mtime];
\* read is how opening and reading it ends, mtime a datetime.
NoFile ==
    [exists |-> FALSE, size |-> 0, read |-> "ok", digest |-> "h1",
     mtime |-> [Y |-> 2024, m |-> 1, d |-> 1, H |-> 0, M |-> 0, S |-> 0]]

\* What calculate_sha1 is answered for a file (a stat of an existing file
\* succeeds).
ProbeOf(f) ==
    [exists |-> f.exists, stat_ok |-> f.exists, size |-> f.size, read |-> f.read,
     digest |-> f.digest]

\* get_file_timestamp(file_path) in the canonical format
get_file_timestamp(f) == IF ~f.exists THEN NoneTs ELSE strftime_iso(f.mtime)

\* monitoring.calculate_sha1 and performance.max_file_size_for_sha1_mb
CalculateSha1Enabled == TRUE

MaxFileSizeMb == 500

create_file_info_drop_unhashed(f_hash, f_stat, file_path, folder_name, filename, enabled, limit) ==
    LET sha1 == IF enabled THEN calculate_sha1(ProbeOf(f_hash), limit) ELSE None
    IN  IF sha1 = None THEN <<>>
        ELSE << [folder_name |-> folder_name, filename |-> filename,
                 full_path |-> file_path, sha1 |-> sha1,
                 timestamp |-> get_file_timestamp(f_stat)] >>

\* _create_file_info: the record of one file, as a list of one record (the
\* empty list for None). f_hash is the file at file_path as calculate_sha1
\* finds it, f_stat as get_file_timestamp finds it afterwards.
create_file_info(f_hash, f_stat, file_path, folder_name, filename, enabled, limit) ==
    LET sha1 == IF enabled THEN calculate_sha1(ProbeOf(f_hash), limit) ELSE None
    IN  << [folder_name |-> folder_name, filename |-> filename,
            full_path |-> file_path, sha1 |-> sha1,
            timestamp |-> get_file_timestamp(f_stat)] >>

\* organization.categories and organization.excluded_files of the configuration
Categories == <<"Documents">>

ConfigExcluded == {"results.csv", "desktop.ini", "Thumbs.db", ".DS_Store"}

FolderOf(i) == IF i = 0 THEN RootGroup ELSE Categories[i]

\* os.path.join(downloads_path, item) for the root group and
\* os.path.join(downloads_path, folder_name, item) otherwise, as the sequence
\* of the path's components (joining an empty folder name adds none).
JoinPath(root, folder_name, filename) ==
    IF folder_name = RootGroup \/ folder_name = "" THEN <<root, filename>>
    ELSE <<root, folder_name, filename>>

\* Path.home() / "Downloads", the root used when none is configured, and a
\* root a configuration may name instead.
DefaultRoot == "~/Downloads"

OtherRoot == "D:/Downloads"

\* organization.auto_organize of the configuration
AutoOrganize == TRUE

\* FileOrganizer.get_file_category: the category whose extensions hold the
\* file's suffix, <<>> for None (".txt" is a Documents extension, ".bin" and
\* ".ini" belong to no category).
get_file_category(filename) ==
    IF filename \in {"a.txt", "a_1.txt"} THEN <<"Documents">> ELSE <<>>

\* f"{base_name}_{counter}{extension}" for counter = 1
UniqueName(filename) == IF filename = "a.txt" THEN "a_1.txt" ELSE filename

\* The loop of organize_files over files_to_organize: every file with a
\* category is moved into the category folder, under a new name when the name
\* is taken there; a move that fails (moved = FALSE, or no folder to move
\* into) leaves the file where it is.
RECURSIVE organize_loop(_, _, _, _)
organize_loop(files, dirs, names, moved) ==
    IF names = {} THEN files
    ELSE LET filename == CHOOSE n \in names : TRUE
             category == get_file_category(filename)
             src == <<RootGroup, filename>>
             dest == IF <<category[1], filename>> \in DOMAIN files
                        /\ files[<<category[1], filename>>].exists
                     THEN <<category[1], UniqueName(filename)>>
                     ELSE <<category[1], filename>>
         IN  IF category = <<>> \/ ~moved \/ dirs[category[1]] = "missing"
             THEN organize_loop(files, dirs, names \ {filename}, moved)
             ELSE organize_loop([files EXCEPT ![dest] = files[src], ![src] = NoFile],
                                dirs, names \ {filename}, moved)

-----------------------------------------------------------------------------
(* Merge / dedup engine                                                    *)

\* A record is [folder_name, filename, sha1, timestamp], with full_path where
\* it comes from a scan or a load; root_dir is always "~" and is not carried.
\* The merge reads folder_name, filename, sha1 and timestamp only.

NoSha1(item) == item.sha1 = None \/ item.sha1 = ""

\* The key under which update_csv_data files an item: the digest, or
\* f"PATH:{folder_name}/{filename}" (folder and file names hold no "/").
IdentityKey_by_path(item) == <<"PATH:", item.folder_name, "/", item.filename>>

IdentityKey_no_folder(item) ==
    IF NoSha1(item) \/ item.sha1 = SKIPPED_TOO_LARGE
    THEN <<"PATH:", item.filename>>
    ELSE <<item.sha1>>

IdentityKey(item) ==
    IF NoSha1(item) \/ item.sha1 = SKIPPED_TOO_LARGE
    THEN <<"PATH:", item.folder_name, "/", item.filename>>
    ELSE <<item.sha1>>

sha1_index_with_excluded(existing, excluded, key) ==
    SelectSeq(existing, LAMBDA item : IdentityKey(item) = key)

\* sha1_index[key]: the non-excluded existing items filed under key, in order.
sha1_index(existing, excluded, key) ==
    SelectSeq(existing, LAMBDA item : item.filename \notin excluded
                                      /\ IdentityKey(item) = key)

RECURSIVE most_recent_flipped(_, _)
most_recent_flipped(existing_items, most_recent) ==
    IF existing_items = <<>> THEN [raised |-> FALSE, item |-> most_recent]
    ELSE LET existing == Head(existing_items)
             c == compare_timestamps(existing.timestamp, most_recent.timestamp)
         IN  IF c.raised THEN [raised |-> TRUE, item |-> most_recent]
             ELSE most_recent_flipped(Tail(existing_items),
                                      IF c.value < 0 THEN existing ELSE most_recent)

RECURSIVE last_later_than(_, _, _)
last_later_than(existing_items, new_item, chosen) ==
    IF existing_items = <<>> THEN [raised |-> FALSE, item |-> chosen]
    ELSE LET existing == Head(existing_items)
             c == compare_timestamps(existing.timestamp, new_item.timestamp)
         IN  IF c.raised THEN [raised |-> TRUE, item |-> chosen]
             ELSE last_later_than(Tail(existing_items), new_item,
                                  IF c.value > 0 THEN existing ELSE chosen)

most_recent_vs_new(existing_items, most_recent) ==
    last_later_than(existing_items, most_recent, most_recent)

RECURSIVE most_recent_or_equal(_, _)
most_recent_or_equal(existing_items, most_recent) ==
    IF existing_items = <<>> THEN [raised |-> FALSE, item |-> most_recent]
    ELSE LET existing == Head(existing_items)
             c == compare_timestamps(existing.timestamp, most_recent.timestamp)
         IN  IF c.raised THEN [raised |-> TRUE, item |-> most_recent]
             ELSE most_recent_or_equal(Tail(existing_items),
                                       IF c.value >= 0 THEN existing ELSE most_recent)

\* The loop over existing_items that keeps the most recent item.
RECURSIVE most_recent_of(_, _)
most_recent_of(existing_items, most_recent) ==
    IF existing_items = <<>> THEN [raised |-> FALSE, item |-> most_recent]
    ELSE LET existing == Head(existing_items)
             c == compare_timestamps(existing.timestamp, most_recent.timestamp)
         IN  IF c.raised THEN [raised |-> TRUE, item |-> most_recent]
             ELSE most_recent_of(Tail(existing_items),
                                 IF c.value > 0 THEN existing ELSE most_recent)

\* The loop over new_data, carrying updated_data and processed_keys.
RECURSIVE process_new(_, _, _, _, _)
process_new(existing, new, excluded, updated, processed_keys) ==
    IF new = <<>> THEN [raised |-> FALSE, data |-> updated]
    ELSE LET new_item == Head(new)
             key == IdentityKey(new_item)
             existing_items == sha1_index(existing, excluded, key)
         IN  IF new_item.filename \in excluded \/ key \in processed_keys
             THEN process_new(existing, Tail(new), excluded, updated, processed_keys)
             ELSE IF existing_items # <<>>
             THEN LET r == most_recent_of(existing_items, new_item)
                  IN  IF r.raised THEN [raised |-> TRUE, data |-> updated]
                      ELSE process_new(existing, Tail(new), excluded,
                                       Append(updated, r.item),
                                       processed_keys \cup {key})
             ELSE process_new(existing, Tail(new), excluded,
                              Append(updated, new_item), processed_keys \cup {key})

update_csv_data_last_wins(existing, new, excluded) ==
    process_new(existing, [i \in 1..Len(new) |-> new[Len(new) + 1 - i]], excluded, <<>>, {})

update_csv_data(existing, new, excluded) ==
    process_new(existing, new, excluded, <<>>, {})

\* excluded_files of update_csv_data when the caller passes none.
DefaultExcluded == {"desktop.ini", "Thumbs.db", ".DS_Store"}

-----------------------------------------------------------------------------
(* Duplicate detector                                                      *)

\* hash_groups[sha1]: the items carrying a real digest sha1, in order.
hash_groups(files_data, sha1) ==
    SelectSeq(files_data, LAMBDA f : ~NoSha1(f) /\ f.sha1 # SKIPPED_TOO_LARGE
                                     /\ f.sha1 = sha1)

find_duplicates_any_value(files_data) ==
    LET keys == {f.sha1 : f \in {g \in SeqToSet(files_data) : ~NoSha1(g)}}
        group(k) == SelectSeq(files_data, LAMBDA f : f.sha1 = k)
        dup == {k \in keys : Len(group(k)) > 1}
    IN  [k \in dup |-> group(k)]

find_duplicates_with_singletons(files_data) ==
    LET keys == {f.sha1 : f \in {g \in SeqToSet(files_data) :
                                    ~NoSha1(g) /\ g.sha1 # SKIPPED_TOO_LARGE}}
    IN  [k \in keys |-> hash_groups(files_data, k)]

\* find_duplicates: the digests with more than one item, each with its items.
find_duplicates(files_data) ==
    LET keys == {f.sha1 : f \in {g \in SeqToSet(files_data) :
                                    ~NoSha1(g) /\ g.sha1 # SKIPPED_TOO_LARGE}}
        dup == {k \in keys : Len(hash_groups(files_data, k)) > 1}
    IN  [k \in dup |-> hash_groups(files_data, k)]

-----------------------------------------------------------------------------
(* The store file                                                          *)

\* The store file is [exists, fields, rows]: the header's column names and the
\* cells of every row in column order; a row shorter than the header has no
\* cell for the last columns (csv.DictReader reads them as None). The text of
\* a cell is a sequence of tokens: a file or folder name is one token and
\* holds no separator, "\\" and "/" are tokens, a timestamp is its characters.

NoStore == [exists |-> FALSE, fields |-> <<>>, rows |-> <<>>]

fieldnames ==
    <<"path", "rel_path", "folder_name", "filename", "sha1sum", "timestamp",
      "mtime_iso">>

\* csv.DictWriter writes None as the empty string.
TextOfName(x) == IF x = None \/ x = "" THEN <<>> ELSE <<x>>

TextOfStamp(ts) == IF ts = NoneTs THEN <<>> ELSE ts

\* The file found at an absolute path; files holds the files below root.
FileAt(files, root, full_path) ==
    LET p == IF Len(full_path) = 2 THEN <<RootGroup, full_path[2]>>
                                   ELSE Tail(full_path)
    IN  IF full_path[1] = root /\ p \in DOMAIN files THEN files[p] ELSE NoFile

\* get_file_timestamp(file_path, legacy_format=True)
get_file_timestamp_legacy(f) ==
    IF ~f.exists THEN NoneTs ELSE strftime_legacy(f.mtime)

writerow_without_sha1(item, files, root) ==
    LET path == IF item.folder_name = RootGroup
                THEN <<"~", "\\", item.filename>>
                ELSE <<"~", "\\", item.folder_name, "\\", item.filename>>
        rel_path == IF item.folder_name = RootGroup
                    THEN <<item.filename>>
                    ELSE <<item.folder_name, "/", item.filename>>
        legacy_timestamp ==
            IF "full_path" \in DOMAIN item /\ item.full_path # <<>>
            THEN get_file_timestamp_legacy(FileAt(files, root, item.full_path))
            ELSE item.timestamp
        timestamp == IF legacy_timestamp = NoneTs \/ legacy_timestamp = <<>>
                     THEN item.timestamp ELSE legacy_timestamp
    IN  <<path, rel_path, <<item.folder_name>>, <<item.filename>>,
          <<>>, TextOfStamp(timestamp),
          TextOfStamp(item.timestamp)>>

\* The row save_to_csv writes for one record.
writerow(item, files, root) ==
    LET path == IF item.folder_name = RootGroup
                THEN <<"~", "\\", item.filename>>
                ELSE <<"~", "\\", item.folder_name, "\\", item.filename>>
        rel_path == IF item.folder_name = RootGroup
                    THEN <<item.filename>>
                    ELSE <<item.folder_name, "/", item.filename>>
        legacy_timestamp ==
            IF "full_path" \in DOMAIN item /\ item.full_path # <<>>
            THEN get_file_timestamp_legacy(FileAt(files, root, item.full_path))
            ELSE item.timestamp
        timestamp == IF legacy_timestamp = NoneTs \/ legacy_timestamp = <<>>
                     THEN item.timestamp ELSE legacy_timestamp
    IN  <<path, rel_path, <<item.folder_name>>, <<item.filename>>,
          TextOfName(item.sha1), TextOfStamp(timestamp),
          TextOfStamp(item.timestamp)>>

\* save_to_csv(data, csv_path): [ok, store]. fault is what the filesystem
\* does to the write: "none", "PermissionError" when the file cannot be
\* opened, or "OSError" after it was opened and truncated, with the header and
\* the first written rows on disk.
save_to_csv(data, old, files, root, fault, written) ==
    IF fault = "PermissionError" THEN [ok |-> FALSE, store |-> old]
    ELSE LET rows == [i \in 1..Len(data) |-> writerow(data[i], files, root)]
         IN  IF fault = "OSError"
             THEN [ok |-> FALSE,
                   store |-> [exists |-> TRUE, fields |-> fieldnames,
                              rows |-> SubSeq(rows, 1, written)]]
             ELSE [ok |-> TRUE,
                   store |-> [exists |-> TRUE, fields |-> fieldnames,
                              rows |-> rows]]

HasCol(fields, name) == \E i \in 1..Len(fields) : fields[i] = name

\* row[name] of csv.DictReader, for a column of the header: [some, text],
\* some = FALSE for None.
Cell(fields, row, name) ==
    LET i == CHOOSE j \in 1..Len(fields) : fields[j] = name
    IN  IF i <= Len(row) THEN [some |-> TRUE, text |-> row[i]]
        ELSE [some |-> FALSE, text |-> <<>>]

\* The string a text of at most one token stands for.
NameOfText(t) == IF t = <<>> THEN "" ELSE t[1]

\* str.split(sep): the texts between the separators.
RECURSIVE Split(_, _, _)
Split(text, sep, part) ==
    IF text = <<>> THEN <<part>>
    ELSE IF Head(text) = sep THEN <<part>> \o Split(Tail(text), sep, <<>>)
    ELSE Split(Tail(text), sep, Append(part, Head(text)))

\* The legacy branch of load_from_csv: group and filename out of the path.
parse_legacy_path(path) ==
    IF Len(path) >= 2 /\ path[1] = "~" /\ path[2] = "\\"
    THEN LET path_parts == Split(SubSeq(path, 3, Len(path)), "\\", <<>>)
         IN  IF Len(path_parts) = 1
             THEN [folder_name |-> RootGroup,
                   filename |-> NameOfText(path_parts[1])]
             ELSE [folder_name |-> NameOfText(path_parts[1]),
                   filename |-> NameOfText(path_parts[2])]
    ELSE [folder_name |-> RootGroup, filename |-> NameOfText(path)]

\* One iteration of the row loop of load_from_csv: [ok, rec]; ok = FALSE when
\* the iteration raises (KeyError for a missing path column, AttributeError
\* for a path that is None, TypeError when os.path.join is given None).
load_row(fields, row, root) ==
    LET explicit == HasCol(fields, "folder_name") /\ HasCol(fields, "filename")
        raises ==
            IF explicit
            THEN ~Cell(fields, row, "folder_name").some
                     \/ ~Cell(fields, row, "filename").some
            ELSE ~HasCol(fields, "path") \/ ~Cell(fields, row, "path").some
        names ==
            IF explicit
            THEN [folder_name |-> NameOfText(Cell(fields, row, "folder_name").text),
                  filename |-> NameOfText(Cell(fields, row, "filename").text)]
            ELSE parse_legacy_path(Cell(fields, row, "path").text)
        stamp_col == IF HasCol(fields, "mtime_iso") THEN "mtime_iso" ELSE "timestamp"
        timestamp ==
            IF ~HasCol(fields, stamp_col) THEN <<>>
            ELSE IF Cell(fields, row, stamp_col).some
                 THEN Cell(fields, row, stamp_col).text ELSE NoneTs
        sha1 ==
            IF ~HasCol(fields, "sha1sum") THEN ""
            ELSE IF Cell(fields, row, "sha1sum").some
                 THEN NameOfText(Cell(fields, row, "sha1sum").text) ELSE None
    IN  IF raises THEN [ok |-> FALSE]
        ELSE [ok |-> TRUE,
              rec |-> [folder_name |-> names.folder_name,
                       filename |-> names.filename,
                       full_path |-> JoinPath(root, names.folder_name,
                                              names.filename),
                       sha1 |-> sha1, timestamp |-> timestamp]]

\* The row loop: an iteration that raises ends the loop, and the records read
\* so far are returned.
RECURSIVE load_rows(_, _, _, _)
load_rows(fields, rows, root, data) ==
    IF rows = <<>> THEN data
    ELSE LET r == load_row(fields, Head(rows), root)
         IN  IF ~r.ok THEN data
             ELSE load_rows(fields, Tail(rows), root, Append(data, r.rec))

\* load_from_csv(csv_path); root is what get_downloads_path() returns.
load_from_csv(st, root) ==
    IF ~st.exists THEN <<>> ELSE load_rows(st.fields, st.rows, root, <<>>)

-----------------------------------------------------------------------------
(* The duplicate detector's counters and its clean-up advice               *)

\* files[0].get("full_path"): an absent or empty path is the empty sequence.
full_path_of(f) == IF "full_path" \in DOMAIN f THEN f.full_path ELSE <<>>

\* Keys of the duplicates dictionary in insertion order: hash_groups is
\* filled in list order, so a digest is placed by its first record.
duplicate_keys_of(files_data) ==
    LET dup == DOMAIN find_duplicates(files_data)
        first == {i \in 1..Len(files_data) :
                     /\ files_data[i].sha1 \in dup
                     /\ \A j \in 1..(i - 1) : files_data[j].sha1 # files_data[i].sha1}
    IN  [n \in 1..Cardinality(first) |->
            files_data[CHOOSE i \in first : Cardinality({j \in first : j < i}) = n - 1].sha1]

\* Path(full_path).stat().st_size * (len(files) - 1), nothing when the first
\* record of the group has no path or stat raises OSError.
group_waste(group, files, root) ==
    IF full_path_of(group[1]) # <<>> /\ FileAt(files, root, full_path_of(group[1])).exists
    THEN FileAt(files, root, full_path_of(group[1])).size * (Len(group) - 1)
    ELSE 0

RECURSIVE count_duplicates(_, _)
count_duplicates(keys, groups) ==
    IF keys = <<>> THEN 0
    ELSE (Len(groups[Head(keys)]) - 1) + count_duplicates(Tail(keys), groups)

RECURSIVE count_waste(_, _, _, _)
count_waste(keys, groups, files, root) ==
    IF keys = <<>> THEN 0
    ELSE group_waste(groups[Head(keys)], files, root)
            + count_waste(Tail(keys), groups, files, root)

\* The detector after find_duplicates(files_data): the counters are reset and
\* rebuilt from this call's groups.
detect(files_data, files, root) ==
    LET groups == find_duplicates(files_data)
        keys == duplicate_keys_of(files_data)
    IN  [duplicates |-> groups,
         keys |-> keys,
         total_duplicates |-> count_duplicates(keys, groups),
         wasted_space |-> count_waste(keys, groups, files, root)]

\* sorted(files, key=0 for the root group else 1, reverse=True): the sort is
\* stable, so the records outside the root group come first in list order.
sorted_files_root_first(files) ==
    SelectSeq(files, LAMBDA f : f.folder_name = RootGroup)
        \o SelectSeq(files, LAMBDA f : f.folder_name # RootGroup)

sorted_files(files) ==
    SelectSeq(files, LAMBDA f : f.folder_name # RootGroup)
        \o SelectSeq(files, LAMBDA f : f.folder_name = RootGroup)

group_suggestions(files) ==
    LET s == sorted_files(files)
    IN  << [action |-> "keep", file |-> s[1]] >>
            \o [i \in 1..(Len(s) - 1) |-> [action |-> "delete", file |-> s[i + 1]]]

RECURSIVE suggest_cleanup(_, _)
suggest_cleanup(keys, groups) ==
    IF keys = <<>> THEN <<>>
    ELSE (IF Len(groups[Head(keys)]) <= 1 THEN <<>>
          ELSE group_suggestions(groups[Head(keys)]))
            \o suggest_cleanup(Tail(keys), groups)

-----------------------------------------------------------------------------
(* Input domains                                                           *)

Instants ==
    { [Y |-> 2024, m |-> 1, d |-> 1, H |-> 0, M |-> 0, S |-> 0],
      [Y |-> 2024, m |-> 6, d |-> 1, H |-> 0, M |-> 0, S |-> 0],
      [Y |-> 2019, m |-> 6, d |-> 1, H |-> 12, M |-> 30, S |-> 0],
      [Y |-> 1999, m |-> 6, d |-> 1, H |-> 0, M |-> 0, S |-> 0] }

CanonicalStamps == {strftime_iso(dt) : dt \in Instants}

LegacyStamps == {strftime_legacy(dt) : dt \in Instants}

Timestamps == CanonicalStamps \cup LegacyStamps \cup {<<>>, NoneTs}

Iso1 == strftime_iso([Y |-> 2024, m |-> 1, d |-> 1, H |-> 0, M |-> 0, S |-> 0])
Iso2 == strftime_iso([Y |-> 2024, m |-> 6, d |-> 1, H |-> 0, M |-> 0, S |-> 0])
Iso3 == strftime_iso([Y |-> 2019, m |-> 6, d |-> 1, H |-> 12, M |-> 30, S |-> 0])
Legacy1 == strftime_legacy([Y |-> 2024, m |-> 1, d |-> 1, H |-> 0, M |-> 0, S |-> 0])

Limits == {<<>>, <<1>>, <<500>>}

Sizes == {0, 1 * MB, 1 * MB + 1, 500 * MB, 500 * MB + 1}

Probes ==
    [exists : BOOLEAN, stat_ok : BOOLEAN, size : Sizes,
     read : {"ok", "PermissionError", "OSError"}, digest : {"h1"}]

NoProbe ==
    [exists |-> FALSE, stat_ok |-> FALSE, size |-> 0, read |-> "ok", digest |-> "h1"]

\* Input profiles of the merge: [items, excl], the records the two lists are
\* drawn from and the exclusion lists tried with them.

\* Records that differ in group, name (one of them excluded by default) and
\* usable fingerprint.
ItemsByKey ==
    [folder_name : {RootGroup, "Documents"}, filename : {"a.txt", "desktop.ini"},
     sha1 : {None, SKIPPED_TOO_LARGE, "h1"}, timestamp : {Iso1}]

\* Records of one content that differ in group and timestamp.
ItemsByTime ==
    [folder_name : {RootGroup, "Documents"}, filename : {"a.txt"},
     sha1 : {"h1"}, timestamp : {Iso1, Iso2, Iso3, Legacy1, NoneTs}]

\* Records of one content that differ in group, name and timestamp.
ItemsByName ==
    [folder_name : {RootGroup, "Documents"}, filename : {"a.txt", "desktop.ini"},
     sha1 : {"h1"}, timestamp : {Iso1, Iso2}]

MergeProfiles ==
    { [items |-> ItemsByKey, excl |-> {DefaultExcluded, {}}],
      [items |-> ItemsByTime, excl |-> {DefaultExcluded}],
      [items |-> ItemsByName, excl |-> {DefaultExcluded, {}}] }

\* Record lists handed to the store clean-up and to the duplicate detector:
\* scanned records (absent fingerprint None) and loaded ones (absent "").
ListProfiles ==
    { [folder_name : {RootGroup, "Documents"}, filename : {"a.txt", "desktop.ini"},
       sha1 : {None, "", SKIPPED_TOO_LARGE, "h1"}, timestamp : {Iso1}],
      ItemsByTime }

MaxRecords == 3

\* The filesystem of the scan: two places for a.txt, one excluded file.
T1 == [Y |-> 2024, m |-> 1, d |-> 1, H |-> 0, M |-> 0, S |-> 0]
T2 == [Y |-> 2024, m |-> 6, d |-> 1, H |-> 0, M |-> 0, S |-> 0]

Paths == {<<RootGroup, "a.txt">>, <<"Documents", "a.txt">>, <<RootGroup, "desktop.ini">>}

FilesAt(p) ==
    IF p[2] \in ConfigExcluded
    THEN {[exists |-> TRUE, size |-> 1, read |-> "ok", digest |-> "h1", mtime |-> T1]}
    ELSE [exists : {TRUE}, size : {1, MaxFileSizeMb * MB + 1},
          read : {"ok", "PermissionError"}, digest : {"h1"}, mtime : {T1, T2}]

\* Records of the previous store about a.txt.
StoredItems ==
    [folder_name : {RootGroup, "Documents"}, filename : {"a.txt"},
     sha1 : {"h1", ""}, timestamp : {strftime_iso(T1), strftime_iso(T2)}]

MaxStored == 1

SeqsUpTo(S, n) == UNION {[1..k -> S] : k \in 0..n}

\* Files and records the store inputs are made of: a.txt in the root and in
\* Documents, b.bin unreadable when it was scanned.
StorePaths == {<<RootGroup, "a.txt">>, <<"Documents", "a.txt">>, <<RootGroup, "b.bin">>}

T3 == [Y |-> 2019, m |-> 6, d |-> 1, H |-> 12, M |-> 30, S |-> 0]

StoreFiles ==
    [p \in StorePaths |->
        [exists |-> TRUE, size |-> 1, read |-> "ok", digest |-> "h1",
         mtime |-> IF p[1] = RootGroup THEN T3 ELSE T2]]

NoFiles == [p \in StorePaths |-> NoFile]

\* The records of StoreFiles as a scan under root reports them.
ScannedRecords(root) ==
    {[folder_name |-> p[1], filename |-> p[2],
      full_path |-> JoinPath(root, p[1], p[2]),
      sha1 |-> IF p[2] = "b.bin" THEN None ELSE "h1",
      timestamp |-> strftime_iso(StoreFiles[p].mtime)] : p \in StorePaths}

\* Headers of the store: the current one, and legacy ones that carry the
\* composite path with the fingerprint and the short date.
LegacyFields == {<<"path", "sha1sum", "timestamp">>, <<"sha1sum", "timestamp", "path">>}

\* The cells of a current row under another header.
Project(row, fields) ==
    [i \in 1..Len(fields) |-> Cell(fieldnames, row, fields[i]).text]

\* Rows of a store with the given header: the rows of the scanned records and
\* the same rows cut short.
RowsOf(fields) ==
    LET full == {Project(writerow(r, StoreFiles, DefaultRoot), fields) :
                    r \in ScannedRecords(DefaultRoot)}
    IN  full \cup {SubSeq(row, 1, Len(fields) - 1) : row \in full}
             \cup {SubSeq(row, 1, 1) : row \in full}

MaxRows == 3

MaxSaved == 2

\* Records handed to save_to_csv: scanned under the configured root, or loaded
\* (path under the default root), some with no timestamp.
SavedRecords(root) ==
    LET recs == ScannedRecords(root) \cup ScannedRecords(DefaultRoot)
    IN  recs \cup {[r EXCEPT !.timestamp = NoneTs, !.sha1 = None] : r \in recs}

OldStore ==
    [exists |-> TRUE, fields |-> fieldnames,
     rows |-> <<writerow(CHOOSE r \in ScannedRecords(DefaultRoot) :
                            r.folder_name = "Documents", StoreFiles, DefaultRoot)>>]

\* The folder of the monitoring cycle: a.txt in the root and in Documents, the
\* name the organizer gives a second a.txt, and c.bin, which has no category.
CyclePaths ==
    {<<RootGroup, "a.txt">>, <<"Documents", "a.txt">>, <<"Documents", "a_1.txt">>,
     <<RootGroup, "c.bin">>}

CycleFilesAt(p) ==
    IF p[2] = "a_1.txt" THEN {}
    ELSE IF p[2] = "c.bin"
    THEN {[exists |-> TRUE, size |-> 1, read |-> "ok", digest |-> "h2", mtime |-> T1]}
    ELSE [exists : {TRUE}, size : {1}, read : {"ok", "PermissionError"},
          digest : {"h1"}, mtime : {T1}]

\* Stores a previous cycle can have written about a.txt: hashed, or unreadable
\* at the time (no fingerprint), or hashed when the file was newer than the
\* copy now on disk.
CycleStores ==
    {NoStore} \cup
    {[exists |-> TRUE, fields |-> fieldnames,
      rows |-> <<writerow([folder_name |-> g, filename |-> "a.txt",
                           full_path |-> <<>>, sha1 |-> h,
                           timestamp |-> strftime_iso(T1)], NoFiles, DefaultRoot)>>] :
        g \in {RootGroup, "Documents"}, h \in {"h1", None}} \cup
    {[exists |-> TRUE, fields |-> fieldnames,
      rows |-> <<writerow([folder_name |-> RootGroup, filename |-> "a.txt",
                           full_path |-> <<>>, sha1 |-> "h1",
                           timestamp |-> strftime_iso(T2)], NoFiles, DefaultRoot)>>]}

MaxCycles == 2

\* The folder tree of the walk: files in the root and in Documents, excluded
\* names in both, a file one level deeper, a file in a folder that is no
\* category, and a plain file that bears a category's name.
WalkPaths ==
    {<<RootGroup, "a.txt">>, <<RootGroup, "desktop.ini">>, <<RootGroup, "Documents">>,
     <<"Documents", "a.txt">>, <<"Documents", "desktop.ini">>,
     <<"Documents", "sub", "b.txt">>, <<"Other", "c.txt">>}

WalkFile == [exists |-> TRUE, size |-> 1, read |-> "ok", digest |-> "h1", mtime |-> T1]

-----------------------------------------------------------------------------
(* Idle values of the variables a specification does not use               *)

IdleCompare == ts1 = <<>> /\ ts2 = <<>> /\ cmp = [raised |-> FALSE, value |-> 0]

IdleSha1 == probe = NoProbe /\ max_size_mb = <<>> /\ sha1_out = None

IdleMerge ==
    /\ existing_data = <<>> /\ new_data = <<>> /\ excluded_files = {}
    /\ updated_data = <<>> /\ merge_raised = FALSE /\ duplicates = <<>>

IdleScan ==
    /\ root_state = "ok" /\ dir_state = [c \in {} |-> "ok"] /\ fs = [p \in {} |-> NoFile]
    /\ todo = {} /\ cat = 0 /\ candidates = {} /\ hash_calls = 0

IdleRun ==
    /\ downloads_path = DefaultRoot /\ store = NoStore /\ store_before = NoStore
    /\ result = "none" /\ last_step = "none" /\ cycles = 0

NoCycle == [result |-> "none", new_data |-> <<>>]

IdleDetector ==
    /\ duplicate_keys = <<>> /\ total_duplicates = 0 /\ wasted_space = 0
    /\ suggestions = <<>> /\ calls = 0

IdleGui ==
    /\ is_monitoring = FALSE /\ threads = <<>> /\ pending = 0
    /\ buttons = [start_btn |-> "normal", stop_btn |-> "disabled", scan_btn |-> "normal"]

IdleRest == prev = NoCycle /\ IdleDetector /\ IdleGui

-----------------------------------------------------------------------------
(* compare_timestamps applied to every pair of timestamps                  *)

InitCompare ==
    /\ pc = "compare_call"
    /\ ts1 \in Timestamps /\ ts2 \in Timestamps
    /\ cmp = [raised |-> FALSE, value |-> 0]
    /\ IdleSha1 /\ IdleMerge /\ IdleScan /\ IdleRun /\ IdleRest

CompareTimestamps ==
    /\ pc = "compare_call"
    /\ cmp' = compare_timestamps(ts1, ts2)
    /\ pc' = "compare_done"
    /\ UNCHANGED <<prev, detector_vars, gui_vars,
                   ts1, ts2, sha1_vars, existing_data, new_data, merge_vars,
                   scan_vars, run_vars>>

NextCompare == CompareTimestamps

SpecCompare == InitCompare /\ [][NextCompare]_vars

-----------------------------------------------------------------------------
(* calculate_sha1 applied to every file condition                          *)

InitSha1 ==
    /\ pc = "sha1_call"
    /\ probe \in Probes /\ max_size_mb \in Limits
    /\ sha1_out = None
    /\ IdleCompare /\ IdleMerge /\ IdleScan /\ IdleRun /\ IdleRest

CalculateSha1 ==
    /\ pc = "sha1_call"
    /\ sha1_out' = calculate_sha1(probe, max_size_mb)
    /\ pc' = "sha1_done"
    /\ UNCHANGED <<prev, detector_vars, gui_vars,
                   compare_vars, probe, max_size_mb, existing_data, new_data,
                   merge_vars, scan_vars, run_vars>>

NextSha1 == CalculateSha1

SpecSha1 == InitSha1 /\ [][NextSha1]_vars

-----------------------------------------------------------------------------------------------------------------------------------------------------
(* update_csv_data applied to every pair of record lists                   *)

InitMerge ==
    /\ pc = "merge_call"
    /\ \E P \in MergeProfiles :
          /\ existing_data \in SeqsUpTo(P.items, MaxRecords)
          /\ new_data \in SeqsUpTo(P.items, MaxRecords - Len(existing_data))
          \* a scan reports a path once
          /\ \A i, j \in 1..Len(new_data) :
                i # j => <<new_data[i].folder_name, new_data[i].filename>>
                             # <<new_data[j].folder_name, new_data[j].filename>>
          /\ excluded_files \in P.excl
    /\ updated_data = <<>> /\ merge_raised = FALSE /\ duplicates = <<>>
    /\ IdleCompare /\ IdleSha1 /\ IdleScan /\ IdleRun /\ IdleRest

\* DownloadsMonitor.update_data
UpdateData ==
    /\ pc = "merge_call"
    /\ LET r == update_csv_data(existing_data, new_data, excluded_files)
       IN  /\ merge_raised' = r.raised
           /\ updated_data' = IF r.raised THEN <<>> ELSE r.data
    /\ pc' = "merged"
    /\ UNCHANGED <<prev, detector_vars, gui_vars,
                   compare_vars, sha1_vars, existing_data, new_data,
                   excluded_files, duplicates, scan_vars, run_vars>>

NextMerge == UpdateData

SpecMerge == InitMerge /\ [][NextMerge]_vars

-----------------------------------------------------------------------------
(* One record list: merged with itself, or searched for duplicates         *)

InitList ==
    /\ pc = "list_call"
    /\ \E D \in ListProfiles : existing_data \in SeqsUpTo(D, MaxRecords)
    /\ new_data = <<>> /\ excluded_files = DefaultExcluded
    /\ updated_data = <<>> /\ merge_raised = FALSE /\ duplicates = <<>>
    /\ IdleCompare /\ IdleSha1 /\ IdleScan /\ IdleRun /\ IdleRest

\* The deduplication step of clean_duplicate_sha1s: the store merged with itself.
CleanDuplicates ==
    /\ pc = "list_call"
    /\ LET r == update_csv_data(existing_data, existing_data, excluded_files)
       IN  /\ merge_raised' = r.raised
           /\ updated_data' = IF r.raised THEN <<>> ELSE r.data
    /\ pc' = "cleaned"
    /\ UNCHANGED <<prev, detector_vars, gui_vars,
                   compare_vars, sha1_vars, existing_data, new_data,
                   excluded_files, duplicates, scan_vars, run_vars>>

\* DuplicateDetector.find_duplicates on the record list: the dictionary and
\* both counters are cleared, then rebuilt.
FindDuplicates_accumulating ==
    /\ pc = "list_call"
    /\ LET d == detect(existing_data, fs, DefaultRoot)
       IN  /\ duplicates' = d.duplicates
           /\ duplicate_keys' = d.keys
           /\ total_duplicates' = total_duplicates + d.total_duplicates
           /\ wasted_space' = wasted_space + d.wasted_space
    /\ calls' = calls + 1
    /\ pc' = "detected"
    /\ UNCHANGED <<prev, gui_vars, suggestions, compare_vars, sha1_vars, existing_data,
                   new_data, excluded_files, updated_data, merge_raised, scan_vars,
                   run_vars>>

FindDuplicates ==
    /\ pc = "list_call"
    /\ LET d == detect(existing_data, fs, DefaultRoot)
       IN  /\ duplicates' = d.duplicates
           /\ duplicate_keys' = d.keys
           /\ total_duplicates' = d.total_duplicates
           /\ wasted_space' = d.wasted_space
    /\ calls' = calls + 1
    /\ pc' = "detected"
    /\ UNCHANGED <<prev, gui_vars, suggestions, compare_vars, sha1_vars, existing_data,
                   new_data, excluded_files, updated_data, merge_raised, scan_vars,
                   run_vars>>

NextList == CleanDuplicates \/ FindDuplicates

SpecList == InitList /\ [][NextList]_vars

-----------------------------------------------------------------------------
(* The duplicate detector: find_duplicates and suggest_cleanup called any  *)
(* number of times on the record lists a caller hands over                 *)

MaxFiles == 4
MaxCalls == 2

DetectPaths == {RootGroup, "Documents"} \X {"a.txt", "b.txt"}

\* Record lists that name a path once, in every order.
ListsOver(paths, sha1s) ==
    UNION {{[i \in 1..k |-> [folder_name |-> ps[i][1], filename |-> ps[i][2],
                            sha1 |-> hs[i], timestamp |-> Iso1, full_path |-> <<>>]] :
               ps \in {q \in [1..k -> paths] : \A i, j \in 1..k : i # j => q[i] # q[j]},
               hs \in [1..k -> sha1s]} : k \in 0..MaxFiles}

WithPaths(l, absent) ==
    [i \in 1..Len(l) |->
        [l[i] EXCEPT !.full_path = IF i \in absent THEN <<>>
                                   ELSE JoinPath(DefaultRoot, l[i].folder_name, l[i].filename)]]

SizedFile(n) == [exists |-> TRUE, size |-> n, read |-> "ok", digest |-> "h1", mtime |-> T1]

InitDetect ==
    /\ pc = "list_call"
    /\ \/ \* every kind of fingerprint, every file on disk
          /\ \E l \in ListsOver(DetectPaths, {None, SKIPPED_TOO_LARGE, "h1", "h2"}) :
                existing_data = WithPaths(l, {})
          /\ fs = [p \in DetectPaths |-> SizedFile(3)]
       \/ \* one content, files of several sizes, missing files, records without a path
          /\ \E l \in ListsOver({<<RootGroup, "a.txt">>, <<"Documents", "a.txt">>,
                                 <<"Documents", "b.txt">>}, {"", "h1"}) :
             \E absent \in SUBSET (1..Len(l)) : existing_data = WithPaths(l, absent)
          /\ fs \in [{<<RootGroup, "a.txt">>, <<"Documents", "a.txt">>} ->
                        {NoFile, SizedFile(2), SizedFile(5)}]
    /\ new_data = <<>> /\ excluded_files = DefaultExcluded
    /\ updated_data = <<>> /\ merge_raised = FALSE /\ duplicates = <<>>
    /\ root_state = "ok" /\ dir_state = [c \in {} |-> "ok"]
    /\ todo = {} /\ cat = 0 /\ candidates = {} /\ hash_calls = 0
    /\ IdleCompare /\ IdleSha1 /\ IdleRun /\ prev = NoCycle /\ IdleDetector /\ IdleGui

\* DuplicateDetector.suggest_cleanup
SuggestCleanup_deleting ==
    /\ pc \in {"detected", "suggested"}
    /\ suggestions' = suggest_cleanup(duplicate_keys, duplicates)
    /\ fs' = [p \in DOMAIN fs |->
                IF \E i \in 1..Len(suggestions') :
                      /\ suggestions'[i].action = "delete"
                      /\ <<suggestions'[i].file.folder_name, suggestions'[i].file.filename>> = p
                THEN NoFile ELSE fs[p]]
    /\ pc' = "suggested"
    /\ UNCHANGED <<prev, gui_vars, compare_vars, sha1_vars, existing_data, new_data,
                   merge_vars, root_state, dir_state, todo, cat, candidates, hash_calls,
                   run_vars, duplicate_keys, total_duplicates, wasted_space, calls>>

SuggestCleanup ==
    /\ pc \in {"detected", "suggested"}
    /\ suggestions' = suggest_cleanup(duplicate_keys, duplicates)
    /\ pc' = "suggested"
    /\ UNCHANGED <<prev, gui_vars, compare_vars, sha1_vars, existing_data, new_data,
                   merge_vars, scan_vars, run_vars, duplicate_keys, total_duplicates,
                   wasted_space, calls>>

\* The caller comes back with the list less one record.
AnotherList ==
    /\ pc \in {"detected", "suggested"} /\ calls < MaxCalls
    /\ \E i \in 1..Len(existing_data) :
          existing_data' = [n \in 1..(Len(existing_data) - 1) |->
                               IF n < i THEN existing_data[n] ELSE existing_data[n + 1]]
    /\ pc' = "list_call"
    /\ UNCHANGED <<prev, detector_vars, gui_vars, compare_vars, sha1_vars, new_data,
                   merge_vars, scan_vars, run_vars>>

NextDetect == FindDuplicates \/ SuggestCleanup \/ AnotherList

SpecDetect == InitDetect /\ [][NextDetect]_vars

-----------------------------------------------------------------------------
(* scan_folder: the scan of a folder tree, one directory entry at a time   *)

InitScan ==
    /\ pc = "scan_call"
    /\ root_state \in {"ok", "missing", "denied"}
    /\ dir_state \in [SeqToSet(Categories) -> {"ok", "missing", "denied"}]
    /\ fs \in [Paths -> UNION {FilesAt(p) : p \in Paths} \cup {NoFile}]
    /\ \A p \in Paths :
          /\ fs[p] \in FilesAt(p) \cup {NoFile}
          /\ root_state # "ok" => fs[p] = NoFile
          /\ (p[1] # RootGroup /\ dir_state[p[1]] = "missing") => fs[p] = NoFile
    /\ \A c \in SeqToSet(Categories) : root_state # "ok" => dir_state[c] = "missing"
    /\ existing_data \in SeqsUpTo(StoredItems, MaxStored)
    /\ new_data = <<>>
    /\ todo = {} /\ cat = 0 /\ candidates = {} /\ hash_calls = 0
    /\ excluded_files = ConfigExcluded
    /\ updated_data = <<>> /\ merge_raised = FALSE /\ duplicates = <<>>
    /\ IdleCompare /\ IdleSha1 /\ IdleRun /\ IdleRest

\* os.path.isfile
IsFile(p) == p \in DOMAIN fs /\ fs[p].exists

\* The entries the loops pass over without looking at the file.
Skipped(item) ==
    item \in excluded_files \/ (cat = 0 /\ item \in SeqToSet(Categories))

\* A path of fs is <<group, name>> for a file directly in the root ("~") or
\* in the folder group, and <<folder, subfolder, name>> for a file one level
\* deeper.

\* os.listdir of the root: its files, the category folders present and the
\* other folders.
ListRoot ==
    {p[2] : p \in {q \in DOMAIN fs : Len(q) = 2 /\ q[1] = RootGroup /\ fs[q].exists}}
        \cup {c \in SeqToSet(Categories) : dir_state[c] # "missing"}
        \cup {p[1] : p \in {q \in DOMAIN fs :
                  q[1] \notin {RootGroup} \cup SeqToSet(Categories) /\ fs[q].exists}}

\* os.listdir of a category folder: its files and its subfolders
ListCategory(c) == {p[2] : p \in {q \in DOMAIN fs : q[1] = c /\ fs[q].exists}}

\* scan_folder calls scan_downloads_folder, which returns [] when the root is
\* missing or cannot be listed and otherwise starts on the root's entries.
ScanStart ==
    /\ pc = "scan_call"
    /\ new_data' = <<>> /\ candidates' = {} /\ hash_calls' = 0 /\ cat' = 0
    /\ IF root_state = "ok"
       THEN todo' = ListRoot /\ pc' = "scan_items"
       ELSE todo' = {} /\ pc' = "scan_done"
    /\ UNCHANGED <<prev, detector_vars, gui_vars,
                   compare_vars, sha1_vars, existing_data, merge_vars, run_vars, root_state,
                   dir_state, fs>>

\* One entry of the listing that is skipped: an excluded name, a category
\* folder in the root, or something that is not a file.
ScanSkip ==
    /\ pc = "scan_items"
    /\ \E item \in todo :
          /\ Skipped(item) \/ ~IsFile(<<FolderOf(cat), item>>)
          /\ todo' = todo \ {item}
    /\ UNCHANGED <<prev, detector_vars, gui_vars,
                   pc, compare_vars, sha1_vars, existing_data, new_data, merge_vars, run_vars,
                   root_state, dir_state, fs, cat, candidates, hash_calls>>

\* One entry that is a file: its record is appended. The file may be deleted
\* by another process after os.path.isfile: before it is hashed, or between
\* the hashing and the timestamp.
ScanFile ==
    /\ pc = "scan_items"
    /\ \E item \in todo, race \in {"none", "before_hash", "before_stat"} :
          LET p == <<FolderOf(cat), item>>
              f_hash == IF race = "before_hash" THEN NoFile ELSE fs[p]
              f_stat == IF race = "none" THEN fs[p] ELSE NoFile
          IN  /\ ~Skipped(item) /\ IsFile(p)
              /\ new_data' = new_data \o create_file_info(f_hash, f_stat,
                                 JoinPath(downloads_path, FolderOf(cat), item),
                                 FolderOf(cat), item, CalculateSha1Enabled,
                                 <<MaxFileSizeMb>>)
              /\ hash_calls' = IF CalculateSha1Enabled THEN hash_calls + 1
                                                       ELSE hash_calls
              /\ candidates' = candidates \cup {p}
              /\ fs' = [fs EXCEPT ![p] = f_stat]
              /\ todo' = todo \ {item}
    /\ UNCHANGED <<prev, detector_vars, gui_vars,
                   pc, compare_vars, sha1_vars, existing_data, merge_vars, run_vars, root_state,
                   dir_state, cat>>

\* The listing is exhausted: on to the next category folder that exists and can
\* be listed, or the scan returns.
ScanNextFolder ==
    /\ pc = "scan_items" /\ todo = {}
    /\ IF cat < Len(Categories)
       THEN /\ cat' = cat + 1
            /\ todo' = IF dir_state[Categories[cat + 1]] = "ok"
                       THEN ListCategory(Categories[cat + 1]) ELSE {}
            /\ pc' = pc
       ELSE /\ pc' = "scan_done"
            /\ UNCHANGED <<cat, todo>>
    /\ UNCHANGED <<prev, detector_vars, gui_vars,
                   compare_vars, sha1_vars, existing_data, new_data, merge_vars, run_vars,
                   root_state, dir_state, fs, candidates, hash_calls>>

NextScan == ScanStart \/ ScanSkip \/ ScanFile \/ ScanNextFolder

SpecScan == InitScan /\ [][NextScan]_vars

-----------------------------------------------------------------------------
(* The scan applied to folder trees with subfolders                        *)

InitWalk ==
    /\ pc = "scan_call"
    /\ root_state = "ok"
    /\ dir_state \in [SeqToSet(Categories) -> {"ok", "missing", "denied"}]
    /\ fs \in [WalkPaths -> {WalkFile, NoFile}]
    /\ \A p \in WalkPaths :
          \* a folder that is missing holds no file, and a name in the root is
          \* a file or a folder, not both
          /\ (p[1] # RootGroup /\ p[1] \in SeqToSet(Categories)
                /\ dir_state[p[1]] = "missing") => fs[p] = NoFile
          /\ (p[1] = RootGroup /\ p[2] \in SeqToSet(Categories) /\ fs[p].exists)
                => dir_state[p[2]] = "missing"
    /\ existing_data = <<>> /\ new_data = <<>>
    /\ todo = {} /\ cat = 0 /\ candidates = {} /\ hash_calls = 0
    /\ excluded_files = ConfigExcluded
    /\ updated_data = <<>> /\ merge_raised = FALSE /\ duplicates = <<>>
    /\ IdleCompare /\ IdleSha1 /\ IdleRun /\ IdleRest

SpecWalk == InitWalk /\ [][NextScan]_vars

-----------------------------------------------------------------------------
(* save_to_csv and load_from_csv applied to stores and record lists        *)

InitStore ==
    /\ pc = "store_call"
    /\ downloads_path \in {DefaultRoot, OtherRoot}
    /\ \/ /\ \E fields \in {fieldnames} \cup LegacyFields :
                store \in [exists : {TRUE}, fields : {fields},
                           rows : SeqsUpTo(RowsOf(fields), MaxRows)]
          /\ updated_data = <<>>
          /\ fs = StoreFiles
       \/ /\ store \in {NoStore, OldStore}
          /\ updated_data \in SeqsUpTo(SavedRecords(downloads_path), MaxSaved)
          /\ fs \in {StoreFiles, NoFiles}
    /\ store_before = store
    /\ result = "none" /\ last_step = "none" /\ cycles = 0
    /\ existing_data = <<>> /\ new_data = <<>> /\ excluded_files = {}
    /\ merge_raised = FALSE /\ duplicates = <<>>
    /\ root_state = "ok" /\ dir_state = [c \in {} |-> "ok"]
    /\ todo = {} /\ cat = 0 /\ candidates = {} /\ hash_calls = 0
    /\ IdleCompare /\ IdleSha1 /\ IdleRest

\* load_from_csv(csv_path) on the store as it is on disk
LoadFromCsv ==
    /\ pc \in {"store_call", "saved"}
    /\ pc = "saved" => result = "True"
    /\ existing_data' = load_from_csv(store, DefaultRoot)
    /\ pc' = IF pc = "saved" THEN "reloaded" ELSE "loaded"
    /\ UNCHANGED <<prev, detector_vars, gui_vars,
                   compare_vars, sha1_vars, new_data, merge_vars, scan_vars,
                   run_vars>>

\* save_to_csv(updated_data, csv_path), with whatever the filesystem does to
\* the write
SaveToCsv ==
    /\ pc = "store_call"
    /\ \E fault \in {"none", "PermissionError", "OSError"},
          written \in 0..Len(updated_data) :
          LET r == save_to_csv(updated_data, store, fs, downloads_path, fault,
                               written)
          IN  /\ store' = r.store
              /\ result' = IF r.ok THEN "True" ELSE "False"
    /\ store_before' = store
    /\ pc' = "saved"
    /\ UNCHANGED <<prev, detector_vars, gui_vars,
                   compare_vars, sha1_vars, existing_data, new_data, merge_vars,
                   scan_vars, downloads_path, last_step, cycles>>

NextStore == LoadFromCsv \/ SaveToCsv

SpecStore == InitStore /\ [][NextStore]_vars

-----------------------------------------------------------------------------
(* ContinuousMonitor.start: monitoring cycles, one after the other         *)

InitCycle ==
    /\ pc = "cycle_call"
    /\ downloads_path = DefaultRoot
    /\ root_state \in {"ok", "missing", "denied"}
    /\ dir_state \in [SeqToSet(Categories) -> {"ok", "missing", "denied"}]
    /\ fs \in [CyclePaths -> UNION {CycleFilesAt(p) : p \in CyclePaths} \cup {NoFile}]
    /\ \A p \in CyclePaths :
          /\ fs[p] \in CycleFilesAt(p) \cup {NoFile}
          /\ root_state # "ok" => fs[p] = NoFile
          /\ (p[1] # RootGroup /\ dir_state[p[1]] = "missing") => fs[p] = NoFile
    /\ \A c \in SeqToSet(Categories) : root_state # "ok" => dir_state[c] = "missing"
    /\ store \in CycleStores
    /\ root_state = "missing" => store = NoStore
    /\ store_before = store
    /\ result = "none" /\ last_step = "none" /\ cycles = 0
    /\ existing_data = <<>> /\ new_data = <<>> /\ updated_data = <<>>
    /\ excluded_files = ConfigExcluded
    /\ merge_raised = FALSE /\ duplicates = <<>>
    /\ todo = {} /\ cat = 0 /\ candidates = {} /\ hash_calls = 0
    /\ IdleCompare /\ IdleSha1 /\ IdleRest

\* The positions inside run_monitoring_cycle, between its steps.
CyclePcs ==
    {"organize", "scan_call", "scan_items", "scan_done", "merge_call", "merged"}

\* Initialize, had a missing store been an error of the initialization.
Initialize_store_required ==
    /\ pc = "cycle_call"
    /\ cycles' = cycles + 1
    /\ store_before' = store
    /\ last_step' = "initialize"
    /\ IF root_state = "missing" \/ ~store.exists
       THEN /\ pc' = "sleep" /\ result' = "False"
            /\ UNCHANGED existing_data
       ELSE /\ existing_data' = load_from_csv(store, DefaultRoot)
            /\ pc' = "organize"
            /\ UNCHANGED result
    /\ prev' = [result |-> result, new_data |-> new_data]
    /\ UNCHANGED <<detector_vars, gui_vars, compare_vars, sha1_vars, new_data, merge_vars,
                   scan_vars, downloads_path, store>>

\* run_monitoring_cycle up to the end of initialize(): the root is validated
\* and the store is loaded.
Initialize ==
    /\ pc = "cycle_call"
    /\ cycles' = cycles + 1
    /\ store_before' = store
    /\ last_step' = "initialize"
    /\ IF root_state = "missing"
       THEN /\ pc' = "sleep" /\ result' = "False"
            /\ UNCHANGED existing_data
       ELSE /\ existing_data' = load_from_csv(store, DefaultRoot)
            /\ pc' = "organize"
            /\ UNCHANGED result
    /\ prev' = [result |-> result, new_data |-> new_data]
    /\ UNCHANGED <<detector_vars, gui_vars, compare_vars, sha1_vars, new_data, merge_vars,
                   scan_vars, downloads_path, store>>

\* The organization phase: organize_downloads_folder creates the missing
\* category folders (made: which of them the filesystem lets it create) and
\* moves the root's files into them.
Organize ==
    /\ pc = "organize"
    /\ \E made \in [SeqToSet(Categories) -> BOOLEAN], moved \in BOOLEAN :
          LET dirs == [c \in SeqToSet(Categories) |->
                          IF dir_state[c] = "missing" /\ made[c] /\ AutoOrganize
                          THEN "ok" ELSE dir_state[c]]
              files_to_organize ==
                  {p[2] : p \in {q \in DOMAIN fs :
                      /\ q[1] = RootGroup /\ fs[q].exists
                      /\ q[2] \notin ConfigExcluded
                      /\ q[2] \notin SeqToSet(Categories)}}
          IN  /\ dir_state' = dirs
              /\ fs' = IF AutoOrganize /\ root_state = "ok"
                       THEN organize_loop(fs, dirs, files_to_organize, moved)
                       ELSE fs
    /\ last_step' = "organize"
    /\ pc' = "scan_call"
    /\ UNCHANGED <<prev, detector_vars, gui_vars,
                   compare_vars, sha1_vars, existing_data, new_data, merge_vars,
                   root_state, todo, cat, candidates, hash_calls, downloads_path,
                   store, store_before, result, cycles>>

\* ScanFolderReturn, had an empty scan been written to the store before the
\* cycle returns.
ScanFolderReturn_persist_empty ==
    /\ pc = "scan_done"
    /\ last_step' = "scan"
    /\ IF new_data = <<>>
       THEN /\ pc' = "sleep" /\ result' = "False"
            /\ store' = save_to_csv(<<>>, store, fs, downloads_path, "none", 0).store
       ELSE pc' = "merge_call" /\ UNCHANGED <<result, store>>
    /\ UNCHANGED <<prev, detector_vars, gui_vars,
                   compare_vars, sha1_vars, existing_data, new_data, merge_vars,
                   scan_vars, downloads_path, store_before, cycles>>

\* The end of scan_folder: a scan that reports no file makes it return False
\* and the cycle return False with it.
ScanFolderReturn ==
    /\ pc = "scan_done"
    /\ last_step' = "scan"
    /\ IF new_data = <<>>
       THEN pc' = "sleep" /\ result' = "False"
       ELSE pc' = "merge_call" /\ UNCHANGED result
    /\ UNCHANGED <<prev, detector_vars, gui_vars,
                   compare_vars, sha1_vars, existing_data, new_data, merge_vars,
                   scan_vars, downloads_path, store, store_before, cycles>>

\* save_data and the rest of the cycle: the result of save_to_csv is the
\* result of the cycle.
SaveData ==
    /\ pc = "merged" /\ ~merge_raised
    /\ \E fault \in {"none", "PermissionError", "OSError"},
          written \in 0..Len(updated_data) :
          LET r == save_to_csv(updated_data, store, fs, downloads_path, fault,
                               written)
          IN  /\ store' = r.store
              /\ result' = IF r.ok THEN "True" ELSE "False"
    /\ last_step' = "save"
    /\ pc' = "sleep"
    /\ UNCHANGED <<prev, detector_vars, gui_vars,
                   compare_vars, sha1_vars, existing_data, new_data, merge_vars,
                   scan_vars, downloads_path, store_before, cycles>>

\* An exception of update_csv_data is caught neither by update_data, nor by
\* run_monitoring_cycle, nor by start(), which catches KeyboardInterrupt only.
Propagate ==
    /\ pc = "merged" /\ merge_raised
    /\ last_step' = "update"
    /\ result' = "raised"
    /\ pc' = "loop_exit"
    /\ UNCHANGED <<prev, detector_vars, gui_vars,
                   compare_vars, sha1_vars, existing_data, new_data, merge_vars,
                   scan_vars, downloads_path, store, store_before, cycles>>

\* time.sleep(interval) and the next turn of the loop
Sleep ==
    /\ pc = "sleep" /\ cycles < MaxCycles
    /\ pc' = "cycle_call"
    /\ UNCHANGED <<prev, detector_vars, gui_vars,
                   compare_vars, sha1_vars, existing_data, new_data, merge_vars,
                   scan_vars, run_vars>>

\* KeyboardInterrupt, between two steps of a cycle or during the wait: stop()
Interrupt ==
    /\ pc \in CyclePcs \cup {"sleep"}
    /\ result' = "interrupt"
    /\ pc' = "loop_exit"
    /\ UNCHANGED <<prev, detector_vars, gui_vars,
                   compare_vars, sha1_vars, existing_data, new_data, merge_vars,
                   scan_vars, downloads_path, store, store_before, last_step,
                   cycles>>

NextCycle ==
    \/ Initialize \/ Organize
    \/ ScanStart \/ ScanSkip \/ ScanFile \/ ScanNextFolder \/ ScanFolderReturn
    \/ UpdateData \/ SaveData \/ Propagate
    \/ Sleep \/ Interrupt

SpecCycle == InitCycle /\ [][NextCycle]_vars

-----------------------------------------------------------------------------
(* The GUI: start_monitoring, stop_monitoring and scan_once run on the     *)
(* Tk main thread and start daemon threads; the threads run the            *)
(* monitoring loop or one scan. The menu entries call the handlers         *)
(* whatever the state of the buttons.                                      *)

MaxThreads == 3

InitGui ==
    /\ pc = "mainloop"
    /\ IdleGui
    /\ IdleCompare /\ IdleSha1 /\ IdleMerge /\ IdleScan /\ IdleRun
    /\ prev = NoCycle /\ IdleDetector

Thread(target, at) == [target |-> target, at |-> at]

StartMonitoring ==
    /\ pc = "mainloop" /\ ~is_monitoring /\ Len(threads) < MaxThreads
    /\ is_monitoring' = TRUE
    /\ buttons' = [buttons EXCEPT !.start_btn = "disabled", !.stop_btn = "normal"]
    /\ threads' = Append(threads, Thread("monitoring_loop", "while"))
    /\ UNCHANGED <<pc, prev, detector_vars, compare_vars, sha1_vars, existing_data,
                   new_data, merge_vars, scan_vars, run_vars, pending>>

StopMonitoring ==
    /\ pc = "mainloop"
    /\ is_monitoring' = FALSE
    /\ buttons' = [buttons EXCEPT !.start_btn = "normal", !.stop_btn = "disabled"]
    /\ UNCHANGED <<pc, prev, detector_vars, compare_vars, sha1_vars, existing_data,
                   new_data, merge_vars, scan_vars, run_vars, threads, pending>>

ScanOnce ==
    /\ pc = "mainloop" /\ ~is_monitoring /\ Len(threads) < MaxThreads
    /\ buttons' = [buttons EXCEPT !.scan_btn = "disabled"]
    /\ threads' = Append(threads, Thread("perform_single_scan", "scan"))
    /\ UNCHANGED <<pc, prev, detector_vars, compare_vars, sha1_vars, existing_data,
                   new_data, merge_vars, scan_vars, run_vars, is_monitoring, pending>>

\* monitoring_loop: the test of "while self.is_monitoring"
LoopTest ==
    /\ \E i \in 1..Len(threads) :
          /\ threads[i] = Thread("monitoring_loop", "while")
          /\ threads' = [threads EXCEPT ![i].at = IF is_monitoring THEN "scan" ELSE "ended"]
    /\ UNCHANGED <<pc, prev, detector_vars, compare_vars, sha1_vars, existing_data,
                   new_data, merge_vars, scan_vars, run_vars, is_monitoring, buttons,
                   pending>>

\* monitoring_loop: perform_scan returns (it catches every exception).
PerformScan ==
    /\ \E i \in 1..Len(threads) :
          /\ threads[i] = Thread("monitoring_loop", "scan")
          /\ threads' = [threads EXCEPT ![i].at = "sleep"]
    /\ UNCHANGED <<pc, prev, detector_vars, compare_vars, sha1_vars, existing_data,
                   new_data, merge_vars, scan_vars, run_vars, is_monitoring, buttons,
                   pending>>

\* monitoring_loop: time.sleep(monitoring_interval) returns.
LoopWake ==
    /\ \E i \in 1..Len(threads) :
          /\ threads[i] = Thread("monitoring_loop", "sleep")
          /\ threads' = [threads EXCEPT ![i].at = "while"]
    /\ UNCHANGED <<pc, prev, detector_vars, compare_vars, sha1_vars, existing_data,
                   new_data, merge_vars, scan_vars, run_vars, is_monitoring, buttons,
                   pending>>

\* perform_single_scan ends: it posts finish_single_scan (directly or through
\* update_single_scan_results) with root.after and the thread is over.
PerformSingleScan ==
    /\ \E i \in 1..Len(threads) :
          /\ threads[i] = Thread("perform_single_scan", "scan")
          /\ threads' = [threads EXCEPT ![i].at = "ended"]
    /\ pending' = pending + 1
    /\ UNCHANGED <<pc, prev, detector_vars, compare_vars, sha1_vars, existing_data,
                   new_data, merge_vars, scan_vars, run_vars, is_monitoring, buttons>>

\* The main loop runs a posted finish_single_scan.
FinishSingleScan ==
    /\ pc = "mainloop" /\ pending > 0
    /\ pending' = pending - 1
    /\ buttons' = [buttons EXCEPT !.scan_btn = "normal"]
    /\ UNCHANGED <<pc, prev, detector_vars, compare_vars, sha1_vars, existing_data,
                   new_data, merge_vars, scan_vars, run_vars, is_monitoring, threads>>

NextGui ==
    \/ StartMonitoring \/ StopMonitoring \/ ScanOnce
    \/ LoopTest \/ PerformScan \/ LoopWake
    \/ PerformSingleScan \/ FinishSingleScan

SpecGui == InitGui /\ [][NextGui]_vars

-----------------------------------------------------------------------------
(* Properties                                                              *)

\* The identity key as the specification words it.
RealDigest(r) == r.sha1 \notin {None, "", SKIPPED_TOO_LARGE}

SpecKey(r) ==
    IF RealDigest(r) THEN [fingerprint |-> r.sha1]
    ELSE [path |-> <<r.folder_name, r.filename>>]

Kept(data, excluded) == SelectSeq(data, LAMBDA r : r.filename \notin excluded)

KeysOf(data) == {SpecKey(data[i]) : i \in 1..Len(data)}

DistinctKeys(data) ==
    \A i, j \in 1..Len(data) : i # j => SpecKey(data[i]) # SpecKey(data[j])

Merged == pc = "merged" /\ ~merge_raised

Canonical(ts) == ts \in CanonicalStamps

\* C1: no two records in the output of merge have the same identity key.
C1_DedupInvariant == Merged => DistinctKeys(updated_data)

C1_Witness ==
    /\ Merged /\ Len(updated_data) >= 2
    /\ \E i, j \in 1..Len(new_data) :
          i # j /\ new_data[i].filename \notin excluded_files
                /\ SpecKey(new_data[i]) = SpecKey(new_data[j])

\* C2: the identity keys in the output of merge are exactly the identity keys
\* of the non-excluded fresh records, each once; a previous record whose key
\* is not among the fresh ones is not in the output.
C2_KeysAreFreshKeys ==
    Merged =>
        /\ KeysOf(updated_data) = KeysOf(Kept(new_data, excluded_files))
        /\ Len(updated_data) = Cardinality(KeysOf(Kept(new_data, excluded_files)))
        /\ \A i \in 1..Len(existing_data) :
              SpecKey(existing_data[i]) \notin KeysOf(Kept(new_data, excluded_files))
                  => existing_data[i] \notin SeqToSet(updated_data)

C2_Witness ==
    /\ Merged /\ updated_data # <<>>
    /\ \E i \in 1..Len(existing_data) :
          /\ existing_data[i].filename \notin excluded_files
          /\ SpecKey(existing_data[i]) \notin KeysOf(Kept(new_data, excluded_files))
    /\ \E i \in 1..Len(existing_data) :
          SpecKey(existing_data[i]) \in KeysOf(Kept(new_data, excluded_files))

\* A store as load_from_csv yields it after a merge: every timestamp is a
\* string and no filename is on the exclusion list.
LoadedStore ==
    \A i \in 1..Len(existing_data) :
        /\ existing_data[i].filename \notin excluded_files
        /\ existing_data[i].timestamp # NoneTs

Later(a, b) == DtCmp(fromisoformat(a).dt, fromisoformat(b).dt) > 0

\* The records competing for key k: the fresh one and the previous ones.
Competitors(k) ==
    Kept(SelectSeq(new_data, LAMBDA r : SpecKey(r) = k), excluded_files)
        \o Kept(SelectSeq(existing_data, LAMBDA r : SpecKey(r) = k), excluded_files)

OneFreshManyPrevious(k) ==
    /\ Len(Kept(SelectSeq(new_data, LAMBDA r : SpecKey(r) = k), excluded_files)) = 1
    /\ Len(Competitors(k)) >= 2
    /\ \A i \in 1..Len(Competitors(k)) : Canonical(Competitors(k)[i].timestamp)
    /\ \A i, j \in 1..Len(Competitors(k)) :
          i # j => Competitors(k)[i].timestamp # Competitors(k)[j].timestamp

\* C4: when a fresh record and previous records share a key and carry distinct
\* canonical timestamps, the record output for the key is the latest of them.
C4_LatestWins ==
    Merged =>
        \A k \in KeysOf(new_data) :
            OneFreshManyPrevious(k) =>
                \E i \in 1..Len(updated_data) :
                    /\ SpecKey(updated_data[i]) = k
                    /\ updated_data[i] \in SeqToSet(Competitors(k))
                    /\ \A j \in 1..Len(Competitors(k)) :
                          ~Later(Competitors(k)[j].timestamp,
                                 updated_data[i].timestamp)

C4_Witness ==
    /\ Merged /\ Len(new_data) = 1 /\ Len(existing_data) = 2
    /\ OneFreshManyPrevious(SpecKey(new_data[1]))
    /\ Len(Competitors(SpecKey(new_data[1]))) = 3
    /\ updated_data = <<existing_data[2]>>
    /\ Later(existing_data[1].timestamp, new_data[1].timestamp)

\* The instant a canonical or legacy timestamp denotes.
Denoted(ts) == IF HasT(ts) THEN fromisoformat(ts).dt ELSE strptime_legacy(ts).dt

\* C5: two timestamps, each canonical or legacy, are ordered by the instants
\* they denote, also when one is canonical and the other legacy.
C5_OrdersByInstant ==
    ( /\ pc = "compare_done"
      /\ ts1 \in CanonicalStamps \cup LegacyStamps
      /\ ts2 \in CanonicalStamps \cup LegacyStamps )
    => ~cmp.raised /\ cmp.value = DtCmp(Denoted(ts1), Denoted(ts2))

Reorderings(s) ==
    {[i \in 1..Len(s) |-> s[f[i]]] : f \in Permutations(1..Len(s))}

MergeOutcome(existing, new) ==
    LET r == update_csv_data(existing, new, excluded_files)
    IN  [raised |-> r.raised,
         records |-> IF r.raised THEN {} ELSE SeqToSet(r.data)]

OrderIndependent ==
    \A e \in Reorderings(existing_data), n \in Reorderings(new_data) :
        MergeOutcome(e, n) = MergeOutcome(existing_data, new_data)

\* C6 as claimed: the records output by merge do not depend on the order of
\* the fresh records or of the previous records.
C6_OrderIndependentAlways == pc = "merged" => OrderIndependent

\* C6 as amended: they do not depend on either order when no two non-excluded
\* fresh records share an identity key, every timestamp is canonical and
\* previous records sharing a key carry distinct timestamps.
OrderFree ==
    /\ DistinctKeys(Kept(new_data, excluded_files))
    /\ \A i \in 1..Len(new_data) : Canonical(new_data[i].timestamp)
    /\ \A i \in 1..Len(existing_data) : Canonical(existing_data[i].timestamp)
    /\ \A i, j \in 1..Len(existing_data) :
          ( /\ i # j
            /\ SpecKey(existing_data[i]) = SpecKey(existing_data[j]) )
          => existing_data[i].timestamp # existing_data[j].timestamp

C6_OrderIndependentDistinct == (pc = "merged" /\ OrderFree) => OrderIndependent

C6_Witness ==
    /\ Merged /\ OrderFree
    /\ Len(existing_data) = 2 /\ Len(new_data) = 1
    /\ SpecKey(existing_data[1]) = SpecKey(new_data[1])
    /\ SpecKey(existing_data[2]) = SpecKey(new_data[1])
    /\ updated_data = <<existing_data[1]>>

\* C8: a record with the too-large sentinel or no fingerprint is in no
\* duplicate group, and the merge tells such records apart by group and
\* filename: one of them survives for every path, whatever they share.
Unusable(r) == ~RealDigest(r)

PathOf(r) == <<r.folder_name, r.filename>>

C8_SentinelExclusion ==
    /\ pc = "detected" =>
          \A k \in DOMAIN duplicates :
              \A i \in 1..Len(duplicates[k]) : ~Unusable(duplicates[k][i])
    /\ (pc = "cleaned" /\ ~merge_raised) =>
          /\ \A i \in 1..Len(existing_data) :
                ( /\ Unusable(existing_data[i])
                  /\ existing_data[i].filename \notin excluded_files )
                => \E j \in 1..Len(updated_data) :
                      /\ Unusable(updated_data[j])
                      /\ PathOf(updated_data[j]) = PathOf(existing_data[i])
          /\ \A i, j \in 1..Len(updated_data) :
                ( /\ i # j /\ Unusable(updated_data[i]) /\ Unusable(updated_data[j]) )
                => PathOf(updated_data[i]) # PathOf(updated_data[j])

C8_Witness ==
    /\ pc = "cleaned" /\ ~merge_raised
    /\ \E i, j \in 1..Len(updated_data) :
          /\ i # j
          /\ updated_data[i].sha1 = SKIPPED_TOO_LARGE
          /\ updated_data[j].sha1 = SKIPPED_TOO_LARGE
    /\ Len(updated_data) < Len(existing_data)

\* C9: calculate_sha1 returns the sentinel exactly when a limit is set and
\* the file's size is strictly above it, nothing when the file is missing or
\* cannot be read, and the digest otherwise; a file of exactly the limit is
\* hashed.
TooLarge ==
    /\ probe.exists /\ max_size_mb # <<>> /\ probe.stat_ok
    /\ probe.size > max_size_mb[1] * MB

Unreadable ==
    \/ ~probe.exists
    \/ max_size_mb # <<>> /\ ~probe.stat_ok
    \/ probe.read # "ok"

ReusableDigests(p) ==
    {existing_data[i].sha1 : i \in
        {j \in 1..Len(existing_data) :
            /\ PathOf(existing_data[j]) = p
            /\ RealDigest(existing_data[j])
            /\ fs[p].exists
            /\ existing_data[j].timestamp = get_file_timestamp(fs[p])}}

UnchangedCandidates == {p \in candidates : ReusableDigests(p) # {}}

\* C7: a scanned file that the previous store holds with a real digest and
\* with the timestamp it still has is not hashed again (the scan makes no
\* calculate_sha1 call for it), and its record carries the stored digest.
C7_UnchangedNotRehashed ==
    /\ hash_calls <= Cardinality(candidates \ UnchangedCandidates)
    /\ \A i \in 1..Len(new_data) :
          PathOf(new_data[i]) \in UnchangedCandidates
              => new_data[i].sha1 \in ReusableDigests(PathOf(new_data[i]))

RecordsOf(p) == {i \in 1..Len(new_data) : PathOf(new_data[i]) = p}

\* C10: the scan emits one record for every candidate file; a file that
\* cannot be read has its record, with no fingerprint, and the other files
\* have theirs with their digest.
C10_OneRecordPerCandidate ==
    /\ Len(new_data) = Cardinality(candidates)
    /\ \A p \in candidates : Cardinality(RecordsOf(p)) = 1
    /\ \A i \in 1..Len(new_data) :
          LET f == fs[PathOf(new_data[i])]
          IN  /\ PathOf(new_data[i]) \in candidates
              /\ (f.exists /\ f.size <= MaxFileSizeMb * MB /\ f.read # "ok")
                    => new_data[i].sha1 = None
              /\ (f.exists /\ f.size <= MaxFileSizeMb * MB /\ f.read = "ok")
                    => new_data[i].sha1 = f.digest

C10_Witness ==
    /\ pc = "scan_done" /\ Len(new_data) = 2
    /\ \E i, j \in 1..2 :
          /\ fs[PathOf(new_data[i])].read = "PermissionError"
          /\ fs[PathOf(new_data[i])].exists /\ new_data[i].sha1 = None
          /\ fs[PathOf(new_data[j])].exists /\ new_data[j].sha1 = "h1"

\* C12: whenever save_to_csv returns False, the store file on disk is what it
\* was before the call.
C12_FailureLeavesStoreIntact ==
    (pc = "saved" /\ result = "False") => store = store_before

\* A store in the legacy schema: no explicit group and filename columns.
LegacyStore ==
    store.exists /\ ~(HasCol(store.fields, "folder_name")
                        /\ HasCol(store.fields, "filename"))

WellFormed(row) == Len(row) = Len(store.fields)

\* C14: after loading a legacy store, the record of every well-formed row is
\* in the loaded records, whether the row comes before or after a row whose
\* parsing fails.
C14_MalformedRowSkipped ==
    (pc = "loaded" /\ LegacyStore) =>
        \A i \in 1..Len(store.rows) :
            WellFormed(store.rows[i]) =>
                load_row(store.fields, store.rows[i], DefaultRoot).rec
                    \in SeqToSet(existing_data)

\* The logical content of a record list.
Logical(data) ==
    {[group |-> r.folder_name, filename |-> r.filename, fingerprint |-> r.sha1,
      timestamp |-> r.timestamp] : r \in SeqToSet(data)}

\* The same records as a legacy store: the composite path, the fingerprint
\* and the short date that save_to_csv writes for them.
LegacyOf(st) ==
    [exists |-> TRUE, fields |-> <<"path", "sha1sum", "timestamp">>,
     rows |-> [i \in 1..Len(st.rows) |->
                  Project(st.rows[i], <<"path", "sha1sum", "timestamp">>)]]

\* C15: the store written in the current schema for records that carry a
\* timestamp and the store holding the same records in the legacy schema load
\* into the same groups, filenames, fingerprints and timestamps.
C15_SchemaCompatible ==
    ( /\ pc = "reloaded"
      /\ \A i \in 1..Len(updated_data) : updated_data[i].timestamp # NoneTs )
    => Logical(existing_data)
            = Logical(load_from_csv(LegacyOf(store), DefaultRoot))

\* C16: no cell of a written store holds the root, and every loaded record's
\* path is the configured root joined with its group and filename.
C16_PathFromConfiguredRoot ==
    /\ (pc = "saved" /\ result = "True") =>
          \A i \in 1..Len(store.rows) : \A j \in 1..Len(store.rows[i]) :
              \A k \in 1..Len(store.rows[i][j]) :
                  store.rows[i][j][k] \notin {DefaultRoot, OtherRoot}
    /\ pc \in {"loaded", "reloaded"} =>
          \A i \in 1..Len(existing_data) :
              existing_data[i].full_path
                  = JoinPath(downloads_path, existing_data[i].folder_name,
                             existing_data[i].filename)

\* A file vanished between its enumeration and its stat in the running scan.
Raced == \E i \in 1..Len(new_data) : new_data[i].timestamp = NoneTs

\* C11: when a file is deleted between its enumeration and its hashing or
\* stat, the merge of the cycle does not raise, and the records of the other
\* files keep their fingerprint.
C11_RaceDegradesOneRecord ==
    (pc = "merged" /\ cycles > 0 /\ Raced) =>
        /\ ~merge_raised
        /\ \A i \in 1..Len(new_data) :
              ( /\ new_data[i].timestamp # NoneTs
                /\ fs[PathOf(new_data[i])].read = "ok" )
              => new_data[i].sha1 = fs[PathOf(new_data[i])].digest

\* C13: a missing store makes the load return no record and does not fail the
\* initialization, which fails for a missing root only; the merge of the cycle
\* then outputs the fresh records, one per identity key.
C13_MissingStoreIsFirstRun ==
    /\ (pc = "sleep" /\ last_step = "initialize") => root_state = "missing"
    /\ (pc \in CyclePcs /\ ~store_before.exists) => existing_data = <<>>
    /\ (pc = "merged" /\ cycles > 0 /\ ~store_before.exists) =>
          /\ ~merge_raised
          /\ KeysOf(updated_data) = KeysOf(Kept(new_data, excluded_files))
          /\ SeqToSet(updated_data) \subseteq SeqToSet(new_data)

C13_Witness ==
    /\ pc = "sleep" /\ cycles = 1 /\ last_step = "save" /\ result = "True"
    /\ ~store_before.exists /\ store.exists /\ Len(store.rows) = 2
    /\ existing_data = <<>>

\* C17: the store is as it was when the cycle began at every position of the
\* cycle before the save step, and after a cycle that ended before the save
\* step: by a failed initialization, an empty scan, an exception of the merge
\* or an interrupt.
C17_StoreWrittenOnlyAfterMerge ==
    /\ pc \in CyclePcs => store = store_before
    /\ (pc \in {"sleep", "loop_exit"} /\ last_step # "save") => store = store_before
    /\ store # store_before =>
          /\ last_step = "save" /\ new_data # <<>> /\ ~merge_raised
          /\ updated_data
                = update_csv_data(existing_data, new_data, excluded_files).data

C17_Witness ==
    /\ pc = "loop_exit" /\ result = "raised" /\ last_step = "update"
    /\ cycles = 2 /\ store.exists /\ store = store_before

\* C18: the loop of start() ends by a user interrupt only; a failure inside a
\* cycle, a False result or an exception, does not end it.
C18_LoopEndsOnInterruptOnly == pc = "loop_exit" => result = "interrupt"

\* C19: a cycle that ends without entering the save step ended for a missing
\* root.
C19_AbortOnlyForMissingRoot ==
    ( \/ pc = "sleep" /\ last_step # "save"
      \/ pc = "loop_exit" /\ result = "raised" )
    => root_state = "missing"

\* The files the walker contract names: p is directly in the root, or directly
\* in a category folder that can be listed, and its name is not excluded.
InContract(p) ==
    /\ Len(p) = 2 /\ p[2] \notin excluded_files
    /\ \/ p[1] = RootGroup
       \/ p[1] \in SeqToSet(Categories) /\ dir_state[p[1]] = "ok"

Reported == {PathOf(new_data[i]) : i \in 1..Len(new_data)}

\* C20: when the scan of a listable root returns, every file of the contract
\* is reported under its group, and every record is a file of the contract:
\* none lies deeper, in a folder that is no category, or is a category folder.
C20_WalkerContract ==
    (pc = "scan_done" /\ root_state = "ok") =>
        /\ \A p \in DOMAIN fs : (fs[p].exists /\ InContract(p)) => p \in Reported
        /\ \A p \in Reported : p \in DOMAIN fs /\ InContract(p)

\* The same contract for the files whose name is not a category's.
WalkerContractButGroupNames ==
    (pc = "scan_done" /\ root_state = "ok") =>
        /\ \A p \in DOMAIN fs :
              (fs[p].exists /\ InContract(p) /\ p[2] \notin SeqToSet(Categories))
                  => p \in Reported
        /\ \A p \in Reported : p \in DOMAIN fs /\ InContract(p)

-----------------------------------------------------------------------------
(* The duplicate detector                                                  *)

Detected == pc \in {"detected", "suggested"}

\* Positions of the records of the list that carry fingerprint h.
Carrying(h) == {i \in 1..Len(existing_data) : existing_data[i].sha1 = h}

\* Real digests carried by at least two records of the list.
SharedDigests ==
    {h \in {existing_data[i].sha1 : i \in 1..Len(existing_data)} :
        h \notin {None, "", SKIPPED_TOO_LARGE} /\ Cardinality(Carrying(h)) >= 2}

RECURSIVE SumOver(_, _)
SumOver(S, f) ==
    IF S = {} THEN 0
    ELSE LET x == CHOOSE y \in S : TRUE IN f[x] + SumOver(S \ {x}, f)

\* C21: find_duplicates returns exactly the real digests carried by at least
\* two records of the list, each with all the records that carry it; a
\* digest of one record, an absent fingerprint and the too-large sentinel
\* are never keys of the result.
C21_DuplicatesExact ==
    Detected =>
        /\ DOMAIN duplicates = SharedDigests
        /\ \A h \in DOMAIN duplicates :
              /\ Len(duplicates[h]) = Cardinality(Carrying(h))
              /\ SeqToSet(duplicates[h]) = {existing_data[i] : i \in Carrying(h)}

C21_Witness ==
    /\ pc = "detected" /\ DOMAIN duplicates = {"h1"}
    /\ Cardinality(Carrying(SKIPPED_TOO_LARGE)) = 2
    /\ Cardinality(Carrying("h2")) = 0

\* Size of the file a record points at, zero when it cannot be stat'ed.
SizeOrZero(r) ==
    IF full_path_of(r) = <<>> THEN 0
    ELSE LET f == FileAt(fs, DefaultRoot, full_path_of(r))
         IN  IF f.exists THEN f.size ELSE 0

Representative(h) == existing_data[CHOOSE i \in Carrying(h) : \A j \in Carrying(h) : i <= j]

\* C22: after any sequence of find_duplicates calls the counters describe the
\* latest call only: total_duplicates is the sum of (count - 1) over its
\* groups, wasted_space the sum of size(first record) * (count - 1), a group
\* whose first record cannot be stat'ed counting zero.
C22_CountersOfLatestCall ==
    Detected =>
        /\ total_duplicates =
              SumOver(SharedDigests, [h \in SharedDigests |-> Cardinality(Carrying(h)) - 1])
        /\ wasted_space =
              SumOver(SharedDigests,
                      [h \in SharedDigests |->
                          SizeOrZero(Representative(h)) * (Cardinality(Carrying(h)) - 1)])

C22_Witness ==
    /\ pc = "detected" /\ calls = 2
    /\ total_duplicates = 1 /\ wasted_space = 5

\* Positions of the suggestions that name a record of group h.
Naming(h) == {i \in 1..Len(suggestions) : suggestions[i].file.sha1 = h}

OutsideRoot(g) == {n \in 1..Len(g) : g[n].folder_name # RootGroup}

\* C23: suggest_cleanup gives, for every duplicate group of N records, one
\* keep and N - 1 delete suggestions that name each member once; the kept
\* record is the first of the group outside the root group when there is
\* one (the first of the group otherwise), so the choice is a function of
\* the input.
C23_OneKeepPerGroup ==
    pc = "suggested" =>
        /\ \A i \in 1..Len(suggestions) : suggestions[i].file.sha1 \in DOMAIN duplicates
        /\ \A h \in DOMAIN duplicates :
              LET g == duplicates[h]
                  keeps == {i \in Naming(h) : suggestions[i].action = "keep"}
                  deletes == {i \in Naming(h) : suggestions[i].action = "delete"}
              IN  /\ Cardinality(keeps) = 1
                  /\ Cardinality(deletes) = Len(g) - 1
                  /\ \A n \in 1..Len(g) :
                        Cardinality({i \in Naming(h) : suggestions[i].file = g[n]}) = 1
                  /\ \A i \in keeps :
                        suggestions[i].file =
                            IF OutsideRoot(g) = {} THEN g[1]
                            ELSE g[CHOOSE n \in OutsideRoot(g) :
                                       \A m \in OutsideRoot(g) : n <= m]

C23_Witness ==
    /\ pc = "suggested"
    /\ \E h \in DOMAIN duplicates :
          /\ Len(duplicates[h]) >= 3
          /\ duplicates[h][1].folder_name = RootGroup
          /\ Cardinality(OutsideRoot(duplicates[h])) >= 2
    /\ Cardinality(DOMAIN duplicates) = 1

\* C24: the detector is advisory: a find_duplicates or suggest_cleanup call
\* leaves every file and every record of the list it was given as they were.
C24_DetectorIsAdvisory ==
    [][pc' \in {"detected", "suggested"} => fs' = fs /\ existing_data' = existing_data]_vars

C24_Witness ==
    /\ pc = "suggested"
    /\ \E i \in 1..Len(suggestions) :
          /\ suggestions[i].action = "delete"
          /\ FileAt(fs, DefaultRoot, suggestions[i].file.full_path).exists
          /\ suggestions[i].file \in SeqToSet(existing_data)

-----------------------------------------------------------------------------
(* The merge: exclusion, first fresh record, ties                          *)

\* C25: no record whose filename is in the exclusion list is in the merge
\* output, whether it comes from the previous store or from the fresh scan,
\* also when it shares its fingerprint with a record that is not excluded.
C25_ExcludedNeverOutput ==
    Merged => \A i \in 1..Len(updated_data) : updated_data[i].filename \notin excluded_files

C25_Witness ==
    /\ Merged /\ updated_data # <<>>
    /\ \E i \in 1..Len(existing_data) : \E j, k \in 1..Len(new_data) :
          /\ existing_data[i].filename \in excluded_files
          /\ new_data[k].filename \in excluded_files
          /\ new_data[j].filename \notin excluded_files
          /\ RealDigest(new_data[j]) /\ existing_data[i].sha1 = new_data[j].sha1
          /\ Canonical(existing_data[i].timestamp) /\ Canonical(new_data[j].timestamp)
          /\ Later(existing_data[i].timestamp, new_data[j].timestamp)

\* The fresh and the previous records that are not excluded and have key k.
FreshOf(k) == Kept(SelectSeq(new_data, LAMBDA r : SpecKey(r) = k), excluded_files)

PreviousOf(k) == Kept(SelectSeq(existing_data, LAMBDA r : SpecKey(r) = k), excluded_files)

\* C27: among the fresh records of one scan that share a key the first one
\* listed decides: the record output for the key is that first fresh record
\* or a previous record, and the timestamps of the later fresh records are
\* not compared (the merge fails only on a comparison between the first
\* fresh record and the previous records of a key).
C27_FirstFreshDecides ==
    pc = "merged" =>
        /\ ~merge_raised =>
              \A i \in 1..Len(updated_data) :
                 LET k == SpecKey(updated_data[i])
                 IN  /\ FreshOf(k) # <<>>
                     /\ \/ updated_data[i] = FreshOf(k)[1]
                        \/ updated_data[i] \in SeqToSet(PreviousOf(k))
        /\ merge_raised =>
              \E k \in KeysOf(new_data) :
                 /\ FreshOf(k) # <<>> /\ PreviousOf(k) # <<>>
                 /\ NoneTs \in {FreshOf(k)[1].timestamp}
                                 \cup {r.timestamp : r \in SeqToSet(PreviousOf(k))}

C27_Witness ==
    /\ Merged /\ Len(new_data) >= 2 /\ existing_data # <<>>
    /\ updated_data = <<new_data[1]>>
    /\ SpecKey(new_data[2]) = SpecKey(new_data[1])
    /\ SpecKey(existing_data[1]) = SpecKey(new_data[1])
    /\ new_data[2].filename \notin excluded_files
    /\ Canonical(new_data[1].timestamp) /\ Canonical(new_data[2].timestamp)
    /\ Later(new_data[2].timestamp, new_data[1].timestamp)

AllCanonical(k) ==
    /\ FreshOf(k) # <<>> /\ Canonical(FreshOf(k)[1].timestamp)
    /\ \A r \in SeqToSet(PreviousOf(k)) : Canonical(r.timestamp)

\* C28: a previous record replaces the fresh record only when its timestamp
\* is strictly later: with canonical timestamps the record output for a key
\* is the fresh record or a record strictly later than it, so on a tie the
\* fresh record (the file at its new group) is output.
C28_TieKeepsFresh ==
    Merged =>
        \A i \in 1..Len(updated_data) :
           LET k == SpecKey(updated_data[i])
           IN  AllCanonical(k) =>
                  \/ updated_data[i] = FreshOf(k)[1]
                  \/ Later(updated_data[i].timestamp, FreshOf(k)[1].timestamp)

C28_Witness ==
    /\ Merged /\ Len(new_data) = 1 /\ Len(existing_data) >= 1
    /\ updated_data = new_data
    /\ RealDigest(new_data[1]) /\ existing_data[1].sha1 = new_data[1].sha1
    /\ existing_data[1].filename = new_data[1].filename
    /\ existing_data[1].filename \notin excluded_files
    /\ existing_data[1].folder_name # new_data[1].folder_name
    /\ Canonical(new_data[1].timestamp)
    /\ existing_data[1].timestamp = new_data[1].timestamp

-----------------------------------------------------------------------------
(* The cycle: deleted files, stability                                     *)

\* A cycle against an existing root has ended without a failure of the store
\* write: by an empty scan or by a successful save.
CycleEnded ==
    /\ pc = "sleep" /\ root_state = "ok"
    /\ \/ last_step = "scan"
       \/ last_step = "save" /\ result = "True"

\* C26: after a cycle against an existing root with a writable store, every
\* record of the persisted store has the identity key of a file the scan of
\* that cycle found, also when the scan found no file at all.
C26_DeletedFilesDropped ==
    CycleEnded => KeysOf(load_from_csv(store, DefaultRoot)) \subseteq KeysOf(new_data)

\* The same for the cycles whose scan found at least one file.
DeletedFilesDroppedUnlessAllGone ==
    (CycleEnded /\ new_data # <<>>) =>
        KeysOf(load_from_csv(store, DefaultRoot)) \subseteq KeysOf(new_data)

\* Two successful cycles in a row have ended; store_before is the store the
\* first of them wrote.
TwoGoodCycles ==
    /\ pc = "sleep" /\ cycles >= 2
    /\ last_step = "save" /\ result = "True" /\ prev.result = "True"

\* Both scans found the same files, with the same content and timestamps,
\* and none of them vanished during a scan.
FilesUnchanged ==
    /\ SeqToSet(new_data) = SeqToSet(prev.new_data)
    /\ \A r \in SeqToSet(new_data) : r.timestamp # NoneTs

SameLogicalStore ==
    Logical(load_from_csv(store, DefaultRoot)) = Logical(load_from_csv(store_before, DefaultRoot))

\* Saving the merged records and loading them back keeps the key of each.
KeysSurviveStore ==
    (pc = "sleep" /\ last_step = "save" /\ result = "True") =>
        LET loaded == load_from_csv(store, DefaultRoot)
        IN  /\ Len(loaded) = Len(updated_data)
            /\ \A i \in 1..Len(loaded) :
                  /\ IdentityKey(loaded[i]) = IdentityKey(updated_data[i])
                  /\ SpecKey(loaded[i]) = SpecKey(updated_data[i])

\* C29 as stated: when the files do not change between two consecutive
\* successful cycles, the second cycle's store holds the logical records of
\* the first cycle's store, and save then load keeps every identity key.
C29_StableWhenFilesUnchanged ==
    /\ KeysSurviveStore
    /\ (TwoGoodCycles /\ FilesUnchanged) => SameLogicalStore

\* C29: when the scans of two consecutive successful cycles report the same
\* records in the same order, the second cycle's store holds the logical
\* records of the first cycle's store, and save then load keeps every
\* identity key.
C29_StableWhenScanRepeats ==
    /\ KeysSurviveStore
    /\ (TwoGoodCycles /\ new_data = prev.new_data) => SameLogicalStore

C29_Witness ==
    /\ TwoGoodCycles /\ new_data = prev.new_data /\ Len(new_data) >= 2
    /\ Len(load_from_csv(store, DefaultRoot)) >= 2
    /\ \E r \in SeqToSet(load_from_csv(store, DefaultRoot)) :
          /\ r.timestamp = strftime_iso(T2)
          /\ \A f \in SeqToSet(new_data) : f.timestamp # r.timestamp

-----------------------------------------------------------------------------
(* The GUI's threads                                                       *)

Scanning == {i \in 1..Len(threads) : threads[i].at = "scan"}

LiveLoops ==
    {i \in 1..Len(threads) : threads[i].target = "monitoring_loop" /\ threads[i].at # "ended"}

\* C30: after any sequence of start_monitoring, stop_monitoring and scan_once
\* at most one thread is running the scan pipeline, and at most one
\* monitoring loop is alive.
C30_OnePipelineThread ==
    Cardinality(Scanning) <= 1 /\ Cardinality(LiveLoops) <= 1

\* With monitoring on, scan_once starts no thread.
ScanOnceRefusedWhileMonitoring ==
    [][is_monitoring =>
         \A i \in 1..Len(threads') :
            threads'[i].target = "perform_single_scan" => i <= Len(threads)]_vars

====
